---- MODULE Spec2Model ----
(***************************************************************************)
(* A model of the Scheme interpreter of src/src: the reader's syntax trees *)
(* are parsed by List::parse (parser.cpp) into expression trees, which the *)
(* eval methods (evaluation.cpp) walk against an environment of linked     *)
(* frames (value.cpp); REPL (main.cpp) drives one top-level form at a time.*)
(*                                                                         *)
(* Memory is modelled explicitly: `frames' is the store of AssocList       *)
(* nodes, `pairs' the store of Pair cells; an Assoc is the index of a      *)
(* frame (0 is the null Assoc) and a pair value carries the index of its   *)
(* cell, so sharing and mutation are what they are in the C++.             *)
(* The build modelled is the ONLINE_JUDGE build (no prompt, no message).   *)
(***************************************************************************)
EXTENDS Integers, Sequences, FiniteSets, TLC

VARIABLES
    global_env,   \* REPL: Assoc global_env (index of the head frame, 0 = empty())
    frames,       \* every AssocList node allocated so far: [x, v, next]
    pairs,        \* every Pair cell allocated so far: [car, cdr]
    nid,          \* how many String, Rational and Procedure objects were made
    out,          \* what was written to std::cout, one chunk per write
    status,       \* where REPL is: "running", or how the loop was left
    hist,         \* the top-level forms read so far, oldest first
    last,         \* the last loop iteration: form, expression, outcome, output
    suite,        \* which set of top-level forms the input is drawn from
    build,        \* what the build leaves open: [argOrder, divTraps]
    arith         \* the arithmetic harness: the number computed so far

vars == <<global_env, frames, pairs, nid, out, status, hist, last, suite, build, arith>>

-----------------------------------------------------------------------------
(* Bounds of the model. *)

\* Top-level forms read in one run.
MaxForms == 2

\* Operands of an and / or form.
MaxOperands == 2

\* Arithmetic harness: largest numerator or denominator of a literal, number
\* of operations applied in a row, and largest numerator or denominator kept.
MaxLit == 2
MaxOps == 2
MaxAbs == 12

-----------------------------------------------------------------------------
(* Small helpers over integers: C++ int division truncates toward zero. *)

Abs(n) == IF n < 0 THEN -n ELSE n

\* a / b of C++ for b # 0
CDiv(a, b) ==
    IF (a >= 0) = (b > 0) THEN Abs(a) \div Abs(b) ELSE -(Abs(a) \div Abs(b))

\* a % b of C++ for b # 0
CMod(a, b) == a - b * CDiv(a, b)

RECURSIVE gcdLoop(_, _)
gcdLoop(a, b) == IF b = 0 THEN a ELSE gcdLoop(b, CMod(a, b))

\* static int gcd(int a, int b) of value.cpp
gcd(a, b) == gcdLoop(Abs(a), Abs(b))

\* int gcd(int a, int b) of the expression constructors: no sign handling
gcd_expr(a, b) == gcdLoop(a, b)

-----------------------------------------------------------------------------
(* Values.  The null Value (Value(nullptr)) is Nullptr. *)

Nullptr == [t |-> "nullptr"]
VoidV == [t |-> "V_VOID"]
NullV == [t |-> "V_NULL"]
TerminateV == [t |-> "V_TERMINATE"]
IntegerV(n) == [t |-> "V_INT", n |-> n]
BooleanV(b) == [t |-> "V_BOOL", b |-> b]
SymbolV(s) == [t |-> "V_SYM", s |-> s]
StringV(s) == [t |-> "V_STRING", s |-> s]
ProcedureV(xs, e, env) == [t |-> "V_PROC", parameters |-> xs, body |-> e, env |-> env]

\* a Rational::Rational that stores what it is given
Rational_unreduced(num, den) == [t |-> "V_RATIONAL", n |-> num, d |-> den]

\* Rational::Rational: the fields of the constructed value (den # 0)
Rational(num, den) ==
    LET g == gcd(num, den)
        numerator == CDiv(num, g)
        denominator == CDiv(den, g)
    IN  IF denominator < 0
        THEN [t |-> "V_RATIONAL", n |-> -numerator, d |-> -denominator]
        ELSE [t |-> "V_RATIONAL", n |-> numerator, d |-> denominator]

\* RationalV: the constructor throws std::runtime_error on den = 0
RationalV(num, den) ==
    IF den = 0 THEN [r |-> "std_runtime_error", v |-> Nullptr]
    ELSE [r |-> "ok", v |-> Rational(num, den)]

-----------------------------------------------------------------------------
(* Environment: value.cpp. *)

empty == 0

\* extend: a new head frame; the frames reachable from lst are untouched
extend(x, v, lst, fr) ==
    [env |-> Len(fr) + 1, frames |-> Append(fr, [x |-> x, v |-> v, next |-> lst])]

RECURSIVE findFrame(_, _, _)
\* the first frame from the head that binds x, 0 if none
findFrame(x, l, fr) ==
    IF l = 0 THEN 0
    ELSE IF fr[l].x = x THEN l
    ELSE findFrame(x, fr[l].next, fr)

\* a find that starts at the frame after the head
find_skipsHead(x, l, fr) ==
    IF l = 0 \/ findFrame(x, fr[l].next, fr) = 0 THEN Nullptr
    ELSE fr[findFrame(x, fr[l].next, fr)].v

\* find: the value of that frame (which may itself be the null Value)
find(x, l, fr) ==
    LET i == findFrame(x, l, fr) IN IF i = 0 THEN Nullptr ELSE fr[i].v

\* a modify that overwrites the slot of every frame binding x
modify_everyFrame(x, v, lst, fr) ==
    [i \in 1..Len(fr) |-> IF fr[i].x = x THEN [fr[i] EXCEPT !.v = v] ELSE fr[i]]

\* modify: overwrite the slot of that frame; no frame, no effect
modify(x, v, lst, fr) ==
    LET i == findFrame(x, lst, fr)
    IN  IF i = 0 THEN fr ELSE [fr EXCEPT ![i].v = v]

-----------------------------------------------------------------------------
(* Syntax trees, as the reader delivers them. *)

Number(n) == [k |-> "Number", n |-> n]
RationalSyntax(num, den) == [k |-> "RationalSyntax", n |-> num, d |-> den]
SymbolSyntax(s) == [k |-> "SymbolSyntax", s |-> s]
StringSyntax(s) == [k |-> "StringSyntax", s |-> s]
TrueSyntax == [k |-> "TrueSyntax"]
FalseSyntax == [k |-> "FalseSyntax"]
List(stxs) == [k |-> "List", stxs |-> stxs]

-----------------------------------------------------------------------------
(* Expression trees: one record per class, `c' the class. *)

ParseError == [c |-> "ParseError"]     \* parse threw RuntimeError
Trap == [c |-> "Trap"]                 \* parse divided by zero and the CPU trapped
Fixnum(n) == [c |-> "Fixnum", n |-> n]
StringExpr(s) == [c |-> "StringExpr", s |-> s]
True == [c |-> "True"]
False == [c |-> "False"]
MakeVoid == [c |-> "MakeVoid"]
Exit == [c |-> "Exit"]
Var(x) == [c |-> "Var", x |-> x]
Quote(stx) == [c |-> "Quote", stx |-> stx]
If(cond, conseq, alter) == [c |-> "If", cond |-> cond, conseq |-> conseq, alter |-> alter]
Cond(clauses) == [c |-> "Cond", clauses |-> clauses]
Begin(es) == [c |-> "Begin", es |-> es]
Lambda(xs, e) == [c |-> "Lambda", xs |-> xs, body |-> e]
Apply(rator, rand) == [c |-> "Apply", rator |-> rator, rand |-> rand]
Define(var, e) == [c |-> "Define", var |-> var, body |-> e]
Set(var, e) == [c |-> "Set", var |-> var, body |-> e]
Let(bind, body) == [c |-> "Let", bind |-> bind, body |-> body]
Letrec(bind, body) == [c |-> "Letrec", bind |-> bind, body |-> body]
Unary(c, rand) == [c |-> c, rand |-> rand]
Binary(c, rand1, rand2) == [c |-> c, rand1 |-> rand1, rand2 |-> rand2]
Variadic(c, rands) == [c |-> c, rands |-> rands]
AndVar(rands) == [c |-> "AndVar", rands |-> rands]
OrVar(rands) == [c |-> "OrVar", rands |-> rands]

\* RationalNum::RationalNum: the literal is reduced when it is built.  0/0
\* divides by gcd 0, which is undefined: the build either traps or goes on
\* with a quotient (0 on the hardware that does not trap)
RationalNum(num, den) ==
    LET g == gcd_expr(Abs(num), Abs(den))
    IN  IF g = 0
        THEN IF build.divTraps THEN Trap ELSE [c |-> "RationalNum", n |-> 0, d |-> 0]
        ELSE LET n1 == CDiv(num, g)
                 d1 == CDiv(den, g)
             IN  IF d1 < 0
                 THEN [c |-> "RationalNum", n |-> -n1, d |-> -d1]
                 ELSE [c |-> "RationalNum", n |-> n1, d |-> d1]

UnaryClasses ==
    {"Car", "Cdr", "Not", "IsBoolean", "IsFixnum", "IsNull", "IsPair",
     "IsProcedure", "IsSymbol", "IsList", "IsString", "Display"}
BinaryClasses ==
    {"Plus", "Minus", "Mult", "Div", "Modulo", "Expt", "Less", "LessEq",
     "Equal", "GreaterEq", "Greater", "Cons", "IsEq", "SetCar", "SetCdr"}
VariadicClasses ==
    {"PlusVar", "MinusVar", "MultVar", "DivVar", "LessVar", "LessEqVar",
     "EqualVar", "GreaterEqVar", "GreaterVar", "ListFunc"}

-----------------------------------------------------------------------------
(* The two name tables the parser and the evaluator consult. *)

\* std::map<std::string, ExprType> primitives
primitives ==
    [p \in {"+", "-", "*", "/", "modulo", "expt", "<", "<=", "=", ">=", ">",
            "void", "eq?", "boolean?", "number?", "null?", "pair?",
            "procedure?", "list?", "symbol?", "string?", "cons", "not", "car",
            "cdr", "set-car!", "set-cdr!", "display", "exit", "and", "or",
            "list"} |->
        CASE p = "+" -> "E_PLUS" [] p = "-" -> "E_MINUS" [] p = "*" -> "E_MUL"
          [] p = "/" -> "E_DIV" [] p = "modulo" -> "E_MODULO"
          [] p = "expt" -> "E_EXPT" [] p = "<" -> "E_LT" [] p = "<=" -> "E_LE"
          [] p = "=" -> "E_EQ" [] p = ">=" -> "E_GE" [] p = ">" -> "E_GT"
          [] p = "void" -> "E_VOID" [] p = "eq?" -> "E_EQQ"
          [] p = "boolean?" -> "E_BOOLQ" [] p = "number?" -> "E_INTQ"
          [] p = "null?" -> "E_NULLQ" [] p = "pair?" -> "E_PAIRQ"
          [] p = "procedure?" -> "E_PROCQ" [] p = "list?" -> "E_LISTQ"
          [] p = "symbol?" -> "E_SYMBOLQ" [] p = "string?" -> "E_STRINGQ"
          [] p = "cons" -> "E_CONS" [] p = "not" -> "E_NOT"
          [] p = "car" -> "E_CAR" [] p = "cdr" -> "E_CDR"
          [] p = "set-car!" -> "E_SETCAR" [] p = "set-cdr!" -> "E_SETCDR"
          [] p = "display" -> "E_DISPLAY" [] p = "exit" -> "E_EXIT"
          [] p = "and" -> "E_AND" [] p = "or" -> "E_OR" [] p = "list" -> "E_LIST"]

\* std::map<std::string, ExprType> reserved_words
reserved_words ==
    [w \in {"begin", "quote", "if", "cond", "lambda", "define", "let",
            "letrec", "set!"} |->
        CASE w = "begin" -> "E_BEGIN" [] w = "quote" -> "E_QUOTE"
          [] w = "if" -> "E_IF" [] w = "cond" -> "E_COND"
          [] w = "lambda" -> "E_LAMBDA" [] w = "define" -> "E_DEFINE"
          [] w = "let" -> "E_LET" [] w = "letrec" -> "E_LETREC"
          [] w = "set!" -> "E_SET"]

-----------------------------------------------------------------------------
(* The parser: parser.cpp.  The environment a form is parsed in is the     *)
(* run-time chain `env' plus the names the parser itself has pushed in     *)
(* front of it with extend(name, NullV(), ...) on its way down.            *)

ParseEnv(env) == [names |-> {}, env |-> env]

\* extend(x, NullV(), New_env) of the parser
parseExtend(x, penv) == [penv EXCEPT !.names = @ \cup {x}]

\* find(op, env).get() != nullptr of the parser
parseBound(op, penv, fr) ==
    \/ op \in penv.names
    \/ find(op, penv.env, fr) # Nullptr

RECURSIVE parseExtendAll(_, _)
parseExtendAll(xs, penv) ==
    IF xs = <<>> THEN penv
    ELSE parseExtendAll(Tail(xs), parseExtend(Head(xs), penv))

\* the parse of a sub-form did not return
Fails(e) == e.c \in {"ParseError", "Trap"}
HasError(es) == \E i \in 1..Len(es) : Fails(es[i])
\* sub-forms are parsed in sequence order: the first failure is the one raised
FirstError(es) ==
    es[CHOOSE i \in 1..Len(es) : Fails(es[i]) /\ \A j \in 1..(i - 1) : ~Fails(es[j])]

IsSymbol(stx) == stx.k = "SymbolSyntax"
IsList(stx) == stx.k = "List"

\* the two- and many-operand classes of an arithmetic or comparison type
BinaryOf(t) ==
    CASE t = "E_PLUS" -> "Plus" [] t = "E_MINUS" -> "Minus" [] t = "E_MUL" -> "Mult"
      [] t = "E_DIV" -> "Div" [] t = "E_LT" -> "Less" [] t = "E_LE" -> "LessEq"
      [] t = "E_EQ" -> "Equal" [] t = "E_GE" -> "GreaterEq" [] t = "E_GT" -> "Greater"
VariadicOf(t) ==
    CASE t = "E_PLUS" -> "PlusVar" [] t = "E_MINUS" -> "MinusVar" [] t = "E_MUL" -> "MultVar"
      [] t = "E_DIV" -> "DivVar" [] t = "E_LT" -> "LessVar" [] t = "E_LE" -> "LessEqVar"
      [] t = "E_EQ" -> "EqualVar" [] t = "E_GE" -> "GreaterEqVar" [] t = "E_GT" -> "GreaterVar"

\* List::parse, the branch primitives.count(op) != 0, operands already parsed
parsePrimitive(op, parameters) ==
    LET op_type == primitives[op]
        n == Len(parameters)
    IN  CASE op_type \in {"E_PLUS", "E_MUL"} ->
               IF n = 0 THEN Variadic(VariadicOf(op_type), parameters)
               ELSE IF n = 1 THEN parameters[1]
               ELSE IF n = 2 THEN Binary(BinaryOf(op_type), parameters[1], parameters[2])
               ELSE Variadic(VariadicOf(op_type), parameters)
          [] op_type \in {"E_MINUS", "E_DIV"} ->
               IF n = 0 THEN ParseError
               ELSE IF n = 1 THEN Variadic(VariadicOf(op_type), parameters)
               ELSE IF n = 2 THEN Binary(BinaryOf(op_type), parameters[1], parameters[2])
               ELSE Variadic(VariadicOf(op_type), parameters)
          [] op_type = "E_MODULO" ->
               IF n # 2 THEN ParseError
               ELSE Binary("Modulo", parameters[1], parameters[2])
          [] op_type = "E_LIST" -> Variadic("ListFunc", parameters)
          [] op_type \in {"E_LT", "E_LE", "E_EQ", "E_GE", "E_GT"} ->
               IF n < 2 THEN ParseError
               ELSE IF n = 2 THEN Binary(BinaryOf(op_type), parameters[1], parameters[2])
               ELSE Variadic(VariadicOf(op_type), parameters)
          [] op_type = "E_AND" -> AndVar(parameters)
          [] op_type = "E_OR" -> OrVar(parameters)
          [] OTHER -> Apply(Var(op), parameters)

\* the body of a lambda or of a function-sugar define
bodyOf(es) == IF Len(es) = 1 THEN es[1] ELSE Begin(es)

RECURSIVE parse(_, _, _)

parseAll(stxs, penv, fr) == [i \in 1..Len(stxs) |-> parse(stxs[i], penv, fr)]

\* the expression a case of List::parse builds from parsed sub-forms: the
\* exception of the first sub-form that failed, if one did
Built(es, expr) == IF HasError(es) THEN FirstError(es) ELSE expr

\* one clause of a cond: a non-empty list, each form parsed in env
parseClause(stx, penv, fr) ==
    IF ~IsList(stx) \/ stx.stxs = <<>> THEN <<ParseError>>
    ELSE parseAll(stx.stxs, penv, fr)

\* the first clause that did not parse decides the exception
firstBadClause(clauses) ==
    CHOOSE i \in 1..Len(clauses) :
        /\ HasError(clauses[i])
        /\ \A j \in 1..(i - 1) : ~HasError(clauses[j])

buildCond(clauses) ==
    IF \E i \in 1..Len(clauses) : HasError(clauses[i])
    THEN FirstError(clauses[firstBadClause(clauses)])
    ELSE Cond(clauses)

\* case E_COND: each clause is checked, then parsed, before the next one
parseCond(stxs, penv, fr) ==
    IF Len(stxs) < 2 THEN ParseError
    ELSE buildCond([i \in 1..(Len(stxs) - 1) |-> parseClause(stxs[i + 1], penv, fr)])

\* the parameter names of a lambda
varsOf(paras) == [i \in 1..Len(paras) |-> paras[i].x]

\* the first parameter that is not a Var decides the exception
firstNotVar(paras) ==
    paras[CHOOSE i \in 1..Len(paras) :
              /\ paras[i].c # "Var"
              /\ \A j \in 1..(i - 1) : paras[j].c = "Var"]

buildLambda(vars_, body_exprs) ==
    Built(body_exprs, Lambda(vars_, bodyOf(body_exprs)))

\* case E_LAMBDA, the parameter list parsed: the body is parsed in env
\* extended by the parameter names
lambdaBody(paras, stxs, penv, fr) ==
    IF \E i \in 1..Len(paras) : paras[i].c # "Var"
    THEN IF firstNotVar(paras) = Trap THEN Trap ELSE ParseError
    ELSE buildLambda(varsOf(paras),
                     parseAll(SubSeq(stxs, 3, Len(stxs)),
                              parseExtendAll(varsOf(paras), penv), fr))

\* case E_LAMBDA
parseLambda(stxs, penv, fr) ==
    IF Len(stxs) < 3 THEN ParseError
    ELSE IF ~IsList(stxs[2]) THEN ParseError
    ELSE lambdaBody(parseAll(stxs[2].stxs, penv, fr), stxs, penv, fr)

\* case E_DEFINE, (define (name p1 ... pN) body...): the body is parsed in
\* env, not in env extended by the parameters
sugarDefine(func_def_list, body_exprs) ==
    Built(body_exprs,
          Define(func_def_list[1].s,
                 Lambda([i \in 1..(Len(func_def_list) - 1) |-> func_def_list[i + 1].s],
                        bodyOf(body_exprs))))

\* a construct with one name and one parsed sub-form e
Named(e, expr) == IF Fails(e) THEN e ELSE expr

buildDefine(var, e) == Named(e, Define(var, e))

\* case E_DEFINE
parseDefine(stxs, penv, fr) ==
    IF Len(stxs) < 3 THEN ParseError
    ELSE IF IsList(stxs[2])
    THEN IF stxs[2].stxs = <<>> THEN ParseError
         ELSE IF \E i \in 1..Len(stxs[2].stxs) : ~IsSymbol(stxs[2].stxs[i])
         THEN ParseError
         ELSE sugarDefine(stxs[2].stxs, parseAll(SubSeq(stxs, 3, Len(stxs)), penv, fr))
    ELSE IF Len(stxs) # 3 THEN ParseError
    ELSE IF ~IsSymbol(stxs[2]) THEN ParseError
    ELSE buildDefine(stxs[2].s, parse(stxs[3], penv, fr))

\* a well-formed binding of let / letrec: (name expr)
binderOk(stx) ==
    /\ IsList(stx)
    /\ Len(stx.stxs) = 2
    /\ IsSymbol(stx.stxs[1])

\* the names a list of well-formed bindings binds
binderNames(bs) == [i \in 1..Len(bs) |-> bs[i].stxs[1].s]

\* the bind vector of a Let / Letrec
bindOf(bs, rhs) ==
    [i \in 1..Len(bs) |-> [first |-> bs[i].stxs[1].s, second |-> rhs[i]]]

letBody(bs, rhs, body) == Named(body, Let(bindOf(bs, rhs), body))

\* case E_LET, the bindings parsed: the body is parsed in env extended by
\* the names
letBindings(bs, rhs, stxs, penv, fr) ==
    IF HasError(rhs) THEN FirstError(rhs)
    ELSE letBody(bs, rhs, parse(stxs[3], parseExtendAll(binderNames(bs), penv), fr))

\* case E_LET: each binding is checked and its right-hand side parsed in env
\* before the next one
parseLet(stxs, penv, fr) ==
    IF Len(stxs) # 3 THEN ParseError
    ELSE IF ~IsList(stxs[2]) THEN ParseError
    ELSE letBindings(stxs[2].stxs,
                     [i \in 1..Len(stxs[2].stxs) |->
                         IF binderOk(stxs[2].stxs[i])
                         THEN parse(stxs[2].stxs[i].stxs[2], penv, fr)
                         ELSE ParseError],
                     stxs, penv, fr)

letrecBody(bs, rhs, body) ==
    Built(Append(rhs, body), Letrec(bindOf(bs, rhs), body))

letrecBindings(bs, stxs, temp_env, fr) ==
    letrecBody(bs, [i \in 1..Len(bs) |-> parse(bs[i].stxs[2], temp_env, fr)],
               parse(stxs[3], temp_env, fr))

\* case E_LETREC: right-hand sides and body in env extended by all the names
parseLetrec(stxs, penv, fr) ==
    IF Len(stxs) # 3 THEN ParseError
    ELSE IF ~IsList(stxs[2]) THEN ParseError
    ELSE IF \E i \in 1..Len(stxs[2].stxs) : ~binderOk(stxs[2].stxs[i]) THEN ParseError
    ELSE letrecBindings(stxs[2].stxs, stxs,
                        parseExtendAll(binderNames(stxs[2].stxs), penv), fr)

buildBegin(passed_exprs) == Built(passed_exprs, Begin(passed_exprs))
buildIf(es) == Built(es, If(es[1], es[2], es[3]))
buildSet(var, e) == Named(e, Set(var, e))

\* List::parse, the branch reserved_words.count(op) != 0
parseReserved(op, stxs, penv, fr) ==
    CASE reserved_words[op] = "E_BEGIN" -> buildBegin(parseAll(Tail(stxs), penv, fr))
      [] reserved_words[op] = "E_QUOTE" ->
           IF Len(stxs) # 2 THEN ParseError ELSE Quote(stxs[2])
      [] reserved_words[op] = "E_IF" ->
           IF Len(stxs) # 4 THEN ParseError
           ELSE buildIf(parseAll(Tail(stxs), penv, fr))
      [] reserved_words[op] = "E_COND" -> parseCond(stxs, penv, fr)
      [] reserved_words[op] = "E_LAMBDA" -> parseLambda(stxs, penv, fr)
      [] reserved_words[op] = "E_DEFINE" -> parseDefine(stxs, penv, fr)
      [] reserved_words[op] = "E_LET" -> parseLet(stxs, penv, fr)
      [] reserved_words[op] = "E_LETREC" -> parseLetrec(stxs, penv, fr)
      [] reserved_words[op] = "E_SET" ->
           IF Len(stxs) # 3 THEN ParseError
           ELSE IF ~IsSymbol(stxs[2]) THEN ParseError
           ELSE buildSet(stxs[2].s, parse(stxs[3], penv, fr))

buildApply(parameters, rator) ==
    Built(Append(parameters, rator), Apply(rator, parameters))

\* an application: the operands are parsed in env, then the operator
parseApply(stxs, penv, fr) ==
    buildApply(parseAll(Tail(stxs), penv, fr), parse(stxs[1], penv, fr))

buildPrimitive(op, parameters) == Built(parameters, parsePrimitive(op, parameters))

\* List::parse: the dispatch on the head symbol op
parseHead(op, stxs, penv, fr) ==
    IF parseBound(op, penv, fr) THEN parseApply(stxs, penv, fr)
    ELSE IF op \in DOMAIN primitives
    THEN buildPrimitive(op, parseAll(Tail(stxs), penv, fr))
    ELSE IF op \in DOMAIN reserved_words
    THEN parseReserved(op, stxs, penv, fr)
    ELSE parseApply(stxs, penv, fr)

\* Syntax::parse of every syntax class
parse(stx, penv, fr) ==
    CASE stx.k = "Number" -> Fixnum(stx.n)
      [] stx.k = "RationalSyntax" -> RationalNum(stx.n, stx.d)
      [] stx.k = "SymbolSyntax" -> Var(stx.s)
      [] stx.k = "StringSyntax" -> StringExpr(stx.s)
      [] stx.k = "TrueSyntax" -> True
      [] stx.k = "FalseSyntax" -> False
      [] stx.k = "List" ->
           IF stx.stxs = <<>> THEN Quote(List(<<>>))
           ELSE IF ~IsSymbol(stx.stxs[1]) THEN parseApply(stx.stxs, penv, fr)
           ELSE parseHead(stx.stxs[1].s, stx.stxs, penv, fr)

-----------------------------------------------------------------------------
(* Primitive operators on values: the evalRator methods of evaluation.cpp. *)
(* Each yields [r, v]: r = "ok" with the value, or the exception thrown.   *)

Returns(v) == [r |-> "ok", v |-> v]
RuntimeError == [r |-> "RuntimeError", v |-> Nullptr]

IsInt(v) == v.t = "V_INT"
IsRat(v) == v.t = "V_RATIONAL"

\* the sign flip the binary rational cases apply before RationalV
flipSign(num, den) == IF den < 0 THEN RationalV(-num, -den) ELSE RationalV(num, den)

Plus_evalRator(rand1, rand2) ==
    CASE IsInt(rand1) /\ IsInt(rand2) -> Returns(IntegerV(rand1.n + rand2.n))
      [] IsRat(rand1) /\ IsInt(rand2) -> RationalV(rand1.n + rand2.n * rand1.d, rand1.d)
      [] IsInt(rand1) /\ IsRat(rand2) -> RationalV(rand1.n * rand2.d + rand2.n, rand2.d)
      [] IsRat(rand1) /\ IsRat(rand2) ->
           flipSign(rand1.n * rand2.d + rand2.n * rand1.d, rand1.d * rand2.d)
      [] OTHER -> RuntimeError

Minus_evalRator(rand1, rand2) ==
    CASE IsInt(rand1) /\ IsInt(rand2) -> Returns(IntegerV(rand1.n - rand2.n))
      [] IsRat(rand1) /\ IsInt(rand2) -> RationalV(rand1.n - rand2.n * rand1.d, rand1.d)
      [] IsInt(rand1) /\ IsRat(rand2) -> RationalV(rand1.n * rand2.d - rand2.n, rand2.d)
      [] IsRat(rand1) /\ IsRat(rand2) ->
           flipSign(rand1.n * rand2.d - rand2.n * rand1.d, rand1.d * rand2.d)
      [] OTHER -> RuntimeError

Mult_evalRator(rand1, rand2) ==
    CASE IsInt(rand1) /\ IsInt(rand2) -> Returns(IntegerV(rand1.n * rand2.n))
      [] IsRat(rand1) /\ IsInt(rand2) -> RationalV(rand1.n * rand2.n, rand1.d)
      [] IsInt(rand1) /\ IsRat(rand2) -> RationalV(rand1.n * rand2.n, rand2.d)
      [] IsRat(rand1) /\ IsRat(rand2) -> flipSign(rand1.n * rand2.n, rand1.d * rand2.d)
      [] OTHER -> RuntimeError

\* a Div::evalRator that multiplies
Div_multiplies(rand1, rand2) == Mult_evalRator(rand1, rand2)

\* Div::evalRator
Div_evalRator(rand1, rand2) ==
    CASE IsInt(rand1) /\ IsInt(rand2) ->
           IF rand2.n = 0 THEN RuntimeError ELSE flipSign(rand1.n, rand2.n)
      [] IsRat(rand1) /\ IsInt(rand2) ->
           IF rand2.n = 0 THEN RuntimeError ELSE flipSign(rand1.n, rand1.d * rand2.n)
      [] IsInt(rand1) /\ IsRat(rand2) ->
           IF rand2.n = 0 THEN RuntimeError ELSE flipSign(rand1.n * rand2.d, rand2.n)
      [] IsRat(rand1) /\ IsRat(rand2) ->
           IF rand2.n = 0 THEN RuntimeError
           ELSE flipSign(rand1.n * rand2.d, rand1.d * rand2.n)
      [] OTHER -> RuntimeError

Modulo_evalRator(rand1, rand2) ==
    IF IsInt(rand1) /\ IsInt(rand2)
    THEN IF rand2.n = 0 THEN RuntimeError
         ELSE Returns(IntegerV(CMod(rand1.n, rand2.n)))
    ELSE RuntimeError

RECURSIVE typeScan(_, _)
\* the type-check loop of the variadic + - *: it stops at the first Rational,
\* so operands after it are not looked at.  "rational", "integers" or "error"
typeScan(args, i) ==
    IF i > Len(args) THEN "integers"
    ELSE IF IsRat(args[i]) THEN "rational"
    ELSE IF ~IsInt(args[i]) THEN "error"
    ELSE typeScan(args, i + 1)

RECURSIVE plusLoop(_, _, _, _)
\* [num, den] after the rational accumulation loop of PlusVar from operand i on
plusLoop(args, i, total_num, total_den) ==
    IF i > Len(args) THEN [num |-> total_num, den |-> total_den]
    ELSE IF IsInt(args[i])
    THEN plusLoop(args, i + 1, total_num + args[i].n * total_den, total_den)
    ELSE IF IsRat(args[i])
    THEN plusLoop(args, i + 1, total_num * args[i].d + args[i].n * total_den,
                  total_den * args[i].d)
    ELSE plusLoop(args, i + 1, total_num, total_den)

RECURSIVE intSum(_, _)
intSum(args, i) == IF i > Len(args) THEN 0 ELSE args[i].n + intSum(args, i + 1)

PlusVar_evalRator(args) ==
    IF args = <<>> THEN Returns(IntegerV(0))
    ELSE LET scan == typeScan(args, 1)
         IN  IF scan = "error" THEN RuntimeError
             ELSE IF scan = "rational"
             THEN LET t == plusLoop(args, 1, 0, 1) IN RationalV(t.num, t.den)
             ELSE Returns(IntegerV(intSum(args, 1)))

RECURSIVE minusLoop(_, _, _, _)
minusLoop(args, i, num, den) ==
    IF i > Len(args) THEN [num |-> num, den |-> den]
    ELSE IF IsInt(args[i])
    THEN minusLoop(args, i + 1, num - args[i].n * den, den)
    ELSE IF IsRat(args[i])
    THEN minusLoop(args, i + 1, num * args[i].d - args[i].n * den, den * args[i].d)
    ELSE minusLoop(args, i + 1, num, den)

\* a MinusVar::evalRator that adds
MinusVar_adds(args) == PlusVar_evalRator(args)

\* MinusVar::evalRator
MinusVar_evalRator(args) ==
    IF args = <<>> THEN RuntimeError
    ELSE IF Len(args) = 1
    THEN IF IsInt(args[1]) THEN Returns(IntegerV(-args[1].n))
         ELSE IF IsRat(args[1]) THEN RationalV(-args[1].n, args[1].d)
         ELSE RuntimeError
    ELSE LET scan == typeScan(args, 1)
         IN  IF scan = "error" THEN RuntimeError
             ELSE IF scan = "rational"
             THEN LET first == IF IsInt(args[1]) THEN [num |-> args[1].n, den |-> 1]
                               ELSE [num |-> args[1].n, den |-> args[1].d]
                      t == minusLoop(args, 2, first.num, first.den)
                  IN  RationalV(t.num, t.den)
             ELSE Returns(IntegerV(args[1].n - intSum(args, 2)))

RECURSIVE multLoop(_, _, _, _)
multLoop(args, i, num, den) ==
    IF i > Len(args) THEN [num |-> num, den |-> den]
    ELSE IF IsInt(args[i]) THEN multLoop(args, i + 1, num * args[i].n, den)
    ELSE IF IsRat(args[i])
    THEN multLoop(args, i + 1, num * args[i].n, den * args[i].d)
    ELSE multLoop(args, i + 1, num, den)

MultVar_evalRator(args) ==
    IF args = <<>> THEN Returns(IntegerV(1))
    ELSE LET scan == typeScan(args, 1)
         IN  IF scan = "error" THEN RuntimeError
             ELSE LET t == multLoop(args, 1, 1, 1)
                  IN  IF scan = "rational" THEN RationalV(t.num, t.den)
                      ELSE Returns(IntegerV(t.num))

\* static int gcd_helper(int a, int b) of evaluation.cpp
gcd_helper(a, b) == gcdLoop(Abs(a), Abs(b))

RECURSIVE divLoop(_, _, _, _)

\* num and den after the common factor g1 of num and the divisor's
\* numerator n has been taken out and den multiplied
divNumerator(num, den, n, g1) ==
    IF g1 > 1 THEN [num |-> CDiv(num, g1), den |-> den * CDiv(n, g1)]
    ELSE [num |-> num, den |-> den * n]

\* then the common factor g2 of den and the divisor's denominator d
divDenominator(t, d, g2) ==
    IF g2 > 1 THEN [num |-> t.num * CDiv(d, g2), den |-> CDiv(t.den, g2)]
    ELSE [num |-> t.num * d, den |-> t.den]

divNext(args, i, t) == divLoop(args, i + 1, t.num, t.den)

\* the loop of DivVar over the divisors: [ok, num, den], ok = FALSE when it throws
divLoop(args, i, num, den) ==
    IF i > Len(args) THEN [ok |-> TRUE, num |-> num, den |-> den]
    ELSE IF IsInt(args[i])
    THEN IF args[i].n = 0 THEN [ok |-> FALSE, num |-> num, den |-> den]
         ELSE divNext(args, i,
                      divNumerator(num, den, args[i].n,
                                   gcd_helper(Abs(num), Abs(args[i].n))))
    ELSE IF IsRat(args[i])
    THEN IF args[i].n = 0 THEN [ok |-> FALSE, num |-> num, den |-> den]
         ELSE divNext(args, i,
                      divDenominator(divNumerator(num, den, args[i].n,
                                                  gcd_helper(Abs(num), Abs(args[i].n))),
                                     args[i].d,
                                     gcd_helper(Abs(den), Abs(args[i].d))))
    ELSE [ok |-> FALSE, num |-> num, den |-> den]

\* the end of DivVar::evalRator: num and den reduced by their gcd g
divReduce(num, den, g) ==
    IF g > 1 THEN [num |-> CDiv(num, g), den |-> CDiv(den, g)]
    ELSE [num |-> num, den |-> den]

divSign(t) == IF t.den < 0 THEN [num |-> -t.num, den |-> -t.den] ELSE t

divResult(t) ==
    IF t.den = 1 THEN Returns(IntegerV(t.num)) ELSE RationalV(t.num, t.den)

divFinish(t) ==
    IF ~t.ok THEN RuntimeError
    ELSE divResult(divSign(divReduce(t.num, t.den,
                                     gcd_helper(Abs(t.num), Abs(t.den)))))

DivVar_evalRator(args) ==
    IF args = <<>> THEN RuntimeError
    ELSE IF Len(args) = 1
    THEN IF IsInt(args[1])
         THEN IF args[1].n = 0 THEN RuntimeError ELSE RationalV(1, args[1].n)
         ELSE IF IsRat(args[1])
         THEN IF args[1].n = 0 THEN RuntimeError ELSE RationalV(args[1].d, args[1].n)
         ELSE RuntimeError
    ELSE IF ~IsInt(args[1]) /\ ~IsRat(args[1]) THEN RuntimeError
    ELSE divFinish(divLoop(args, 2, args[1].n,
                           IF IsInt(args[1]) THEN 1 ELSE args[1].d))

\* compareNumericValues: -1, 0 or 1 (both operands numeric)
compareNumericValues(v1, v2) ==
    LET left == CASE IsInt(v1) /\ IsInt(v2) -> v1.n
                  [] IsRat(v1) /\ IsInt(v2) -> IF v1.d < 0 THEN -v1.n ELSE v1.n
                  [] IsInt(v1) /\ IsRat(v2) ->
                       IF v2.d < 0 THEN -(v1.n * v2.d) ELSE v1.n * v2.d
                  [] OTHER -> IF v1.d < 0 THEN -(v1.n * v2.d) ELSE v1.n * v2.d
        right == CASE IsInt(v1) /\ IsInt(v2) -> v2.n
                   [] IsRat(v1) /\ IsInt(v2) ->
                        IF v1.d < 0 THEN -(v2.n * v1.d) ELSE v2.n * v1.d
                   [] IsInt(v1) /\ IsRat(v2) -> IF v2.d < 0 THEN -v2.n ELSE v2.n
                   [] OTHER -> IF v2.d < 0 THEN -(v2.n * v1.d) ELSE v2.n * v1.d
    IN  IF left < right THEN -1 ELSE IF left > right THEN 1 ELSE 0

IsNumeric(v) == IsInt(v) \/ IsRat(v)

\* what each comparison asks of compareNumericValues
relHolds(c, cmp) ==
    CASE c \in {"Less", "LessVar"} -> cmp < 0
      [] c \in {"LessEq", "LessEqVar"} -> cmp <= 0
      [] c \in {"Equal", "EqualVar"} -> cmp = 0
      [] c \in {"GreaterEq", "GreaterEqVar"} -> cmp >= 0
      [] c \in {"Greater", "GreaterVar"} -> cmp > 0

\* Less, Equal, GreaterEq, Greater ::evalRator go through
\* compareNumericValues, which throws on a non-numeric operand
Compare_evalRator(c, rand1, rand2) ==
    IF IsNumeric(rand1) /\ IsNumeric(rand2)
    THEN Returns(BooleanV(relHolds(c, compareNumericValues(rand1, rand2))))
    ELSE RuntimeError

\* a LessEq::evalRator that asks for strictly less
LessEq_strict(rand1, rand2) == Compare_evalRator("Less", rand1, rand2)

\* LessEq::evalRator compares by cross-multiplication itself
LessEq_evalRator(rand1, rand2) ==
    CASE IsInt(rand1) /\ IsInt(rand2) -> Returns(BooleanV(rand1.n <= rand2.n))
      [] IsRat(rand1) /\ IsInt(rand2) ->
           IF rand1.d > 0 THEN Returns(BooleanV(rand1.n <= rand2.n * rand1.d))
           ELSE Returns(BooleanV(rand1.n >= rand2.n * rand1.d))
      [] IsInt(rand1) /\ IsRat(rand2) ->
           IF rand2.d > 0 THEN Returns(BooleanV(rand1.n * rand2.d <= rand2.n))
           ELSE Returns(BooleanV(rand1.n * rand2.d >= rand2.n))
      [] IsRat(rand1) /\ IsRat(rand2) ->
           Returns(BooleanV(compareNumericValues(rand1, rand2) <= 0))
      [] OTHER -> RuntimeError

RECURSIVE compareLoop(_, _, _)
\* the loop of LessVar ... GreaterVar over adjacent operands, from pair i on
compareLoop(c, args, i) ==
    IF i > Len(args) - 1 THEN Returns(BooleanV(TRUE))
    ELSE IF ~IsNumeric(args[i]) \/ ~IsNumeric(args[i + 1]) THEN RuntimeError
    ELSE IF ~relHolds(c, compareNumericValues(args[i], args[i + 1]))
    THEN Returns(BooleanV(FALSE))
    ELSE compareLoop(c, args, i + 1)

CompareVar_evalRator(c, args) ==
    IF Len(args) < 2 THEN RuntimeError ELSE compareLoop(c, args, 1)

\* INT_MAX and INT_MIN of <climits>
INT_MAX == 2147483647
INT_MIN == -INT_MAX - 1

\* a * b does not fit an int (the product INT_MIN itself does)
mulOverflows(a, b) ==
    /\ b # 0
    /\ Abs(a) > INT_MAX \div Abs(b)
    /\ ~ /\ (a < 0) # (b < 0)
         /\ Abs(a) = (INT_MAX \div Abs(b)) + 1
         /\ INT_MAX % Abs(b) = Abs(b) - 1

\* signed overflow of an int is undefined behaviour
Undefined == [r |-> "undefined", v |-> Nullptr]

RECURSIVE exptLoop(_, _, _)
\* the square-and-multiply loop of Expt::evalRator on int result, b, exp; the
\* range tests on an int can never be true, so an overflow is not caught
exptLoop(result, b, exp) ==
    IF exp <= 0 THEN Returns(IntegerV(result))
    ELSE IF CMod(exp, 2) = 1 /\ mulOverflows(result, b) THEN Undefined
    ELSE IF mulOverflows(b, b) THEN Undefined
    ELSE exptLoop(IF CMod(exp, 2) = 1 THEN result * b ELSE result, b * b,
                  CDiv(exp, 2))

Expt_evalRator(rand1, rand2) ==
    IF IsInt(rand1) /\ IsInt(rand2)
    THEN IF rand2.n < 0 THEN RuntimeError
         ELSE IF rand1.n = 0 /\ rand2.n = 0 THEN RuntimeError
         ELSE exptLoop(1, rand1.n, rand2.n)
    ELSE RuntimeError

-----------------------------------------------------------------------------
(* The heap: Pair cells, and the identity of the other heap objects.       *)
(* st = [frames, pairs, out, nid, calls]; nid counts the String, Rational   *)
(* and Procedure objects made so far, each of which gets the next number   *)
(* as its identity (eq? compares pointers); calls is the log of logCall.   *)

PairAt(a) == [t |-> "V_PAIR", a |-> a]

\* PairV: a new cell
PairV(car, cdr, st) ==
    [v |-> PairAt(Len(st.pairs) + 1),
     st |-> [st EXCEPT !.pairs = Append(@, [car |-> car, cdr |-> cdr])]]

HasIdentity(v) == v.t \in {"V_STRING", "V_RATIONAL", "V_PROC"}

\* a value just constructed: a new object
NewObject(v, st) ==
    IF HasIdentity(v)
    THEN [v |-> [id |-> st.nid + 1] @@ v, st |-> [st EXCEPT !.nid = @ + 1]]
    ELSE [v |-> v, st |-> st]

\* rand1.get() == rand2.get()
SameObject(v1, v2) ==
    /\ v1.t = v2.t
    /\ \/ v1.t = "V_PAIR" /\ v1.a = v2.a
       \/ HasIdentity(v1) /\ v1.id = v2.id

IsEq_evalRator(rand1, rand2) ==
    CASE IsInt(rand1) /\ IsInt(rand2) -> Returns(BooleanV(rand1.n = rand2.n))
      [] rand1.t = "V_BOOL" /\ rand2.t = "V_BOOL" -> Returns(BooleanV(rand1.b = rand2.b))
      [] rand1.t = "V_SYM" /\ rand2.t = "V_SYM" -> Returns(BooleanV(rand1.s = rand2.s))
      [] \/ rand1.t = "V_NULL" /\ rand2.t = "V_NULL"
         \/ rand1.t = "V_VOID" /\ rand2.t = "V_VOID" -> Returns(BooleanV(TRUE))
      [] OTHER -> Returns(BooleanV(SameObject(rand1, rand2)))

RECURSIVE floydWalk(_, _, _)
\* the while (true) loop of IsList::evalRator on the pointers slow and fast
floydWalk(slow, fast, ps) ==
    IF fast.t # "V_PAIR" THEN BooleanV(fast.t = "V_NULL")
    ELSE LET fast1 == ps[fast.a].cdr
         IN  IF fast1.t # "V_PAIR" THEN BooleanV(fast1.t = "V_NULL")
             ELSE LET fast2 == ps[fast1.a].cdr
                      slow1 == ps[slow.a].cdr
                  IN  IF SameObject(slow1, fast2) THEN BooleanV(FALSE)
                      ELSE floydWalk(slow1, fast2, ps)

\* a list? that looks at the first cell only
IsList_shallow(rand, ps) == BooleanV(rand.t \in {"V_NULL", "V_PAIR"})

IsList_evalRator(rand, ps) ==
    IF rand.t = "V_NULL" THEN BooleanV(TRUE)
    ELSE IF rand.t # "V_PAIR" THEN BooleanV(FALSE)
    ELSE floydWalk(rand, rand, ps)

RECURSIVE ListFunc_evalRator(_, _, _)
\* ListFunc::evalRator: cells are made from the last operand to the first
ListFunc_evalRator(args, i, st) ==
    IF i > Len(args) THEN [v |-> NullV, st |-> st]
    ELSE LET rest == ListFunc_evalRator(args, i + 1, st)
         IN  PairV(args[i], rest.v, rest.st)

-----------------------------------------------------------------------------
(* Printing: the show and showCdr methods of value.cpp.  A cell reachable  *)
(* from itself makes them recurse without end; `fuel' is the number of     *)
(* cells a path may still enter, and a path through more cells than exist  *)
(* has come back to one of them, so ok = FALSE says show does not return.  *)

RECURSIVE Show(_, _, _)
RECURSIVE showCdr(_, _, _)

Show(v, ps, fuel) ==
    CASE v.t = "V_VOID" -> [s |-> "#<void>", ok |-> TRUE]
      [] v.t = "V_INT" -> [s |-> ToString(v.n), ok |-> TRUE]
      [] v.t = "V_RATIONAL" ->
           IF v.d = 1 THEN [s |-> ToString(v.n), ok |-> TRUE]
           ELSE [s |-> ToString(v.n) \o "/" \o ToString(v.d), ok |-> TRUE]
      [] v.t = "V_BOOL" -> [s |-> IF v.b THEN "#t" ELSE "#f", ok |-> TRUE]
      [] v.t = "V_SYM" -> [s |-> v.s, ok |-> TRUE]
      [] v.t = "V_STRING" -> [s |-> "\"" \o v.s \o "\"", ok |-> TRUE]
      [] v.t = "V_NULL" -> [s |-> "()", ok |-> TRUE]
      [] v.t = "V_TERMINATE" -> [s |-> "()", ok |-> TRUE]
      [] v.t = "V_PROC" -> [s |-> "#<procedure>", ok |-> TRUE]
      [] v.t = "V_PAIR" ->
           IF fuel = 0 THEN [s |-> "", ok |-> FALSE]
           ELSE LET a == Show(ps[v.a].car, ps, fuel - 1)
                    d == showCdr(ps[v.a].cdr, ps, fuel - 1)
                IN  [s |-> "(" \o a.s \o d.s, ok |-> a.ok /\ d.ok]

showCdr(v, ps, fuel) ==
    CASE v.t = "V_NULL" -> [s |-> ")", ok |-> TRUE]
      [] v.t = "V_PAIR" ->
           IF fuel = 0 THEN [s |-> "", ok |-> FALSE]
           ELSE LET a == Show(ps[v.a].car, ps, fuel - 1)
                    d == showCdr(ps[v.a].cdr, ps, fuel - 1)
                IN  [s |-> " " \o a.s \o d.s, ok |-> a.ok /\ d.ok]
      [] OTHER -> LET a == Show(v, ps, fuel)
                  IN  [s |-> " . " \o a.s \o ")", ok |-> a.ok]

-----------------------------------------------------------------------------
(* The operators that read or write the heap.  Each yields [r, v, st].     *)

Yield(r, v, st) == [r |-> r, v |-> v, st |-> st]

\* the result of an operator that constructs its value
Fresh(res, st) ==
    IF res.r = "ok"
    THEN LET o == NewObject(res.v, st) IN Yield("ok", o.v, o.st)
    ELSE Yield(res.r, Nullptr, st)

\* Display::evalRator
Display_evalRator(rand, st) ==
    IF rand.t = "V_STRING"
    THEN Yield("ok", VoidV, [st EXCEPT !.out = Append(@, rand.s)])
    ELSE LET sh == Show(rand, st.pairs, Len(st.pairs))
         IN  IF sh.ok THEN Yield("ok", VoidV, [st EXCEPT !.out = Append(@, sh.s)])
             ELSE Yield("diverges", Nullptr, st)

\* Unary::evalRator of every one-operand class
Unary_evalRator(c, rand, st) ==
    CASE c = "Car" -> IF rand.t = "V_PAIR" THEN Yield("ok", st.pairs[rand.a].car, st)
                      ELSE Yield("RuntimeError", Nullptr, st)
      [] c = "Cdr" -> IF rand.t = "V_PAIR" THEN Yield("ok", st.pairs[rand.a].cdr, st)
                      ELSE Yield("RuntimeError", Nullptr, st)
      [] c = "Not" -> Yield("ok", BooleanV(rand.t = "V_BOOL" /\ rand.b = FALSE), st)
      [] c = "IsBoolean" -> Yield("ok", BooleanV(rand.t = "V_BOOL"), st)
      [] c = "IsFixnum" -> Yield("ok", BooleanV(rand.t = "V_INT"), st)
      [] c = "IsNull" -> Yield("ok", BooleanV(rand.t = "V_NULL"), st)
      [] c = "IsPair" -> Yield("ok", BooleanV(rand.t = "V_PAIR"), st)
      [] c = "IsProcedure" -> Yield("ok", BooleanV(rand.t = "V_PROC"), st)
      [] c = "IsSymbol" -> Yield("ok", BooleanV(rand.t = "V_SYM"), st)
      [] c = "IsString" -> Yield("ok", BooleanV(rand.t = "V_STRING"), st)
      [] c = "IsList" -> Yield("ok", IsList_evalRator(rand, st.pairs), st)
      [] c = "Display" -> Display_evalRator(rand, st)

\* the two-operand classes whose evalRator only computes a value
Numeric_evalRator(c, rand1, rand2) ==
    CASE c = "Plus" -> Plus_evalRator(rand1, rand2)
      [] c = "Minus" -> Minus_evalRator(rand1, rand2)
      [] c = "Mult" -> Mult_evalRator(rand1, rand2)
      [] c = "Div" -> Div_evalRator(rand1, rand2)
      [] c = "Modulo" -> Modulo_evalRator(rand1, rand2)
      [] c = "Expt" -> Expt_evalRator(rand1, rand2)
      [] c = "LessEq" -> LessEq_evalRator(rand1, rand2)
      [] c \in {"Less", "Equal", "GreaterEq", "Greater"} ->
           Compare_evalRator(c, rand1, rand2)
      [] c = "IsEq" -> IsEq_evalRator(rand1, rand2)

\* a set-car! that overwrites the whole cell
SetCar_bothSlots(rand1, rand2, st) ==
    IF rand1.t # "V_PAIR" THEN Yield("RuntimeError", Nullptr, st)
    ELSE Yield("ok", VoidV, [st EXCEPT !.pairs[rand1.a] = [car |-> rand2, cdr |-> rand2]])

\* SetCar::evalRator
SetCar_evalRator(rand1, rand2, st) ==
    IF rand1.t # "V_PAIR" THEN Yield("RuntimeError", Nullptr, st)
    ELSE Yield("ok", VoidV, [st EXCEPT !.pairs[rand1.a].car = rand2])

\* SetCdr::evalRator
SetCdr_evalRator(rand1, rand2, st) ==
    IF rand1.t # "V_PAIR" THEN Yield("RuntimeError", Nullptr, st)
    ELSE Yield("ok", VoidV, [st EXCEPT !.pairs[rand1.a].cdr = rand2])

\* Binary::evalRator of every two-operand class
Binary_evalRator(c, rand1, rand2, st) ==
    CASE c \notin {"Cons", "SetCar", "SetCdr"} ->
           Fresh(Numeric_evalRator(c, rand1, rand2), st)
      [] c = "Cons" -> LET p == PairV(rand1, rand2, st) IN Yield("ok", p.v, p.st)
      [] c = "SetCar" -> SetCar_evalRator(rand1, rand2, st)
      [] c = "SetCdr" -> SetCdr_evalRator(rand1, rand2, st)

\* the many-operand classes whose evalRator only computes a value
NumericVar_evalRator(c, args) ==
    CASE c = "PlusVar" -> PlusVar_evalRator(args)
      [] c = "MinusVar" -> MinusVar_evalRator(args)
      [] c = "MultVar" -> MultVar_evalRator(args)
      [] c = "DivVar" -> DivVar_evalRator(args)
      [] OTHER -> CompareVar_evalRator(c, args)

\* Variadic::evalRator of every many-operand class
Variadic_evalRator(c, args, st) ==
    IF c = "ListFunc"
    THEN LET l == ListFunc_evalRator(args, 1, st) IN Yield("ok", l.v, l.st)
    ELSE Fresh(NumericVar_evalRator(c, args), st)

RECURSIVE Quote_eval(_, _)
\* Quote::eval.  The two operands of PairV are evaluated in an order the
\* compiler picks; they only allocate, so the order shows in nothing
Quote_eval(s, st) ==
    CASE s.k = "TrueSyntax" -> Yield("ok", BooleanV(TRUE), st)
      [] s.k = "FalseSyntax" -> Yield("ok", BooleanV(FALSE), st)
      [] s.k = "Number" -> Yield("ok", IntegerV(s.n), st)
      [] s.k = "SymbolSyntax" -> Yield("ok", SymbolV(s.s), st)
      [] s.k = "StringSyntax" -> Fresh(Returns(StringV(s.s)), st)
      [] s.k = "List" ->
           LET stxs_got == s.stxs
               len == Len(stxs_got)
               isDot(i) == IsSymbol(stxs_got[i]) /\ stxs_got[i].s = "."
               dots == {i \in 1..len : isDot(i)}
               cnt == Cardinality(dots)
               pos == IF dots = {} THEN -1
                      ELSE (CHOOSE i \in dots : \A j \in dots : j <= i) - 1
               pairOf(a, b) ==
                   LET qa == Quote_eval(a, st)
                       qb == Quote_eval(b, qa.st)
                   IN  IF qa.r # "ok" THEN qa
                       ELSE IF qb.r # "ok" THEN qb
                       ELSE LET p == PairV(qa.v, qb.v, qb.st) IN Yield("ok", p.v, p.st)
           IN  IF len = 0 THEN Yield("ok", NullV, st)
               ELSE IF len = 1
               THEN LET qa == Quote_eval(stxs_got[1], st)
                    IN  IF qa.r # "ok" THEN qa
                        ELSE LET p == PairV(qa.v, NullV, qa.st) IN Yield("ok", p.v, p.st)
               ELSE IF cnt > 1 \/ (pos # len - 2 /\ cnt # 0) \/ (cnt = 1 /\ len < 3)
               THEN Yield("RuntimeError", Nullptr, st)
               ELSE IF len = 3 /\ isDot(2)
               THEN pairOf(stxs_got[1], stxs_got[3])
               ELSE pairOf(stxs_got[1], List(Tail(stxs_got)))
      [] OTHER -> Yield("RuntimeError", Nullptr, st)

-----------------------------------------------------------------------------
(* The evaluator: the eval methods of evaluation.cpp.  eval takes its      *)
(* environment by reference (Assoc &), and Define::eval assigns to it, so  *)
(* an evaluation yields [r, v, env, st]: the outcome, the value, what the  *)
(* caller's Assoc variable holds afterwards, and the memory afterwards.    *)

Done(r, v, env, st) == [r |-> r, v |-> v, env |-> env, st |-> st]
Throw(r, env, st) == [r |-> r, v |-> Nullptr, env |-> env, st |-> st]

\* the names of the model that Var::eval refuses for their first character
\* (empty, a digit, '.' or '@'), and those it refuses for containing '#'
MalformedNames == {"", ".", "...", "@", "1+"}
HashNames == {"#", "a#"}

\* the switch of Var::eval: the expression a primitive name stands for
primitiveExpr(type_name) ==
    CASE type_name = "E_MUL" -> Variadic("MultVar", <<>>)
      [] type_name = "E_MINUS" -> Variadic("MinusVar", <<>>)
      [] type_name = "E_PLUS" -> Variadic("PlusVar", <<>>)
      [] type_name = "E_DIV" -> Variadic("DivVar", <<>>)
      [] type_name = "E_MODULO" -> Binary("Modulo", Var("parm1"), Var("parm2"))
      [] type_name = "E_LT" -> Variadic("LessVar", <<>>)
      [] type_name = "E_LE" -> Variadic("LessEqVar", <<>>)
      [] type_name = "E_EQ" -> Variadic("EqualVar", <<>>)
      [] type_name = "E_GE" -> Variadic("GreaterEqVar", <<>>)
      [] type_name = "E_GT" -> Variadic("GreaterVar", <<>>)
      [] type_name = "E_VOID" -> MakeVoid
      [] type_name = "E_EQQ" -> Binary("IsEq", Var("parm1"), Var("parm2"))
      [] type_name = "E_BOOLQ" -> Unary("IsBoolean", Var("parm"))
      [] type_name = "E_INTQ" -> Unary("IsFixnum", Var("parm"))
      [] type_name = "E_NULLQ" -> Unary("IsNull", Var("parm"))
      [] type_name = "E_PAIRQ" -> Unary("IsPair", Var("parm"))
      [] type_name = "E_PROCQ" -> Unary("IsProcedure", Var("parm"))
      [] type_name = "E_LISTQ" -> Unary("IsList", Var("parm"))
      [] type_name = "E_SYMBOLQ" -> Unary("IsSymbol", Var("parm"))
      [] type_name = "E_STRINGQ" -> Unary("IsString", Var("parm"))
      [] type_name = "E_CONS" -> Binary("Cons", Var("parm1"), Var("parm2"))
      [] type_name = "E_EXPT" -> Binary("Expt", Var("parm1"), Var("parm2"))
      [] type_name = "E_NOT" -> Unary("Not", Var("parm"))
      [] type_name = "E_CAR" -> Unary("Car", Var("parm"))
      [] type_name = "E_CDR" -> Unary("Cdr", Var("parm"))
      [] type_name = "E_SETCAR" -> Binary("SetCar", Var("parm1"), Var("parm2"))
      [] type_name = "E_SETCDR" -> Binary("SetCdr", Var("parm1"), Var("parm2"))
      [] type_name = "E_DISPLAY" -> Unary("Display", Var("parm"))
      [] type_name = "E_EXIT" -> Exit
      [] type_name = "E_AND" -> AndVar(<<>>)
      [] type_name = "E_OR" -> OrVar(<<>>)
      [] type_name = "E_LIST" -> Variadic("ListFunc", <<>>)

\* the parameter list Var::eval gives the procedure of a primitive
primitiveParameters(exp) ==
    IF exp.c \in VariadicClasses \cup {"AndVar", "OrVar"} THEN <<"args">>
    ELSE IF exp.c \in BinaryClasses THEN <<"parm1", "parm2">>
    ELSE IF exp.c \in UnaryClasses THEN <<"parm">>
    ELSE <<>>

\* Var::eval
Var_eval(x, e, st) ==
    IF x \in MalformedNames THEN Throw("RuntimeError", e, st)
    ELSE IF x \in HashNames THEN Throw("RuntimeError", e, st)
    ELSE LET matched_value == find(x, e, st.frames)
         IN  IF matched_value = Nullptr
             THEN IF x \in DOMAIN primitives
                  THEN LET exp == primitiveExpr(primitives[x])
                           o == NewObject(ProcedureV(primitiveParameters(exp), exp, e), st)
                       IN  Done("ok", o.v, e, o.st)
                  ELSE Throw("RuntimeError", e, st)
             ELSE Done("ok", matched_value, e, st)

\* a Boolean false: the only value a test takes for false
IsFalse(v) == v.t = "V_BOOL" /\ v.b = FALSE

RECURSIVE extendAll(_, _, _, _)
\* params[i] bound to args[i] by one extend each, first parameter innermost
extendAll(xs, vs, lst, fr) ==
    IF xs = <<>> THEN [env |-> lst, frames |-> fr]
    ELSE LET e1 == extend(Head(xs), Head(vs), lst, fr)
         IN  extendAll(Tail(xs), Tail(vs), e1.env, e1.frames)

RECURSIVE modifyAll(_, _, _, _)
modifyAll(xs, vs, lst, fr) ==
    IF xs = <<>> THEN fr
    ELSE modifyAll(Tail(xs), Tail(vs), lst, modify(Head(xs), Head(vs), lst, fr))

\* the leading Define expressions Begin::eval collects as internal_defs
RECURSIVE leadingDefines(_, _)
leadingDefines(es, i) ==
    IF i <= Len(es) /\ es[i].c = "Define" THEN leadingDefines(es, i + 1) ELSE i - 1

RECURSIVE Eval(_, _, _)
RECURSIVE evalArgs(_, _, _, _, _)
RECURSIVE evalLast(_, _, _, _, _)
RECURSIVE evalDefs(_, _, _, _)
RECURSIVE AndVar_eval(_, _, _, _)
RECURSIVE OrVar_eval(_, _, _, _)
RECURSIVE Cond_eval(_, _, _, _)

\* the value and store an evalRator left, returned to a caller whose Assoc
\* variable is e
Finish(y, e) == Done(y.r, y.v, e, y.st)

\* the outcome b of a body evaluated against a local copy of the
\* environment: the caller's Assoc variable e is what it was
Restore(b, e) == Done(b.r, b.v, e, b.st)

\* the names and the right-hand sides of the bindings of a let / letrec
firsts(bind) == [i \in 1..Len(bind) |-> bind[i].first]
seconds(bind) == [i \in 1..Len(bind) |-> bind[i].second]
nullptrs(n) == [i \in 1..n |-> Nullptr]

evalArgs_rest(a, es, i, acc) ==
    IF a.r # "ok" THEN [r |-> a.r, vs |-> acc, env |-> a.env, st |-> a.st]
    ELSE evalArgs(es, i + 1, a.env, a.st, Append(acc, a.v))

\* es[i..] evaluated in order against the same Assoc variable, values kept:
\* [r, vs, env, st]
evalArgs(es, i, e, st, acc) ==
    IF i > Len(es) THEN [r |-> "ok", vs |-> acc, env |-> e, st |-> st]
    ELSE evalArgs_rest(Eval(es[i], e, st), es, i, acc)

evalLast_rest(a, es, i) ==
    IF a.r # "ok" THEN a ELSE evalLast(es, i + 1, a.env, a.st, a.v)

\* es[i..] evaluated in order, the value of the last one returned
evalLast(es, i, e, st, result) ==
    IF i > Len(es) THEN Done("ok", result, e, st)
    ELSE evalLast_rest(Eval(es[i], e, st), es, i)

evalDefs_rest(a, es, i) ==
    IF a.r # "ok" THEN a
    ELSE evalDefs(es, i + 1, a.env,
                  [a.st EXCEPT !.frames = modify(es[i].var, a.v, a.env, @)])

\* Begin::eval, second loop: each internal definition evaluated in new_env
\* and stored by modify
evalDefs(es, i, new_env, st) ==
    IF i > Len(es) THEN Done("ok", VoidV, new_env, st)
    ELSE evalDefs_rest(Eval(es[i].body, new_env, st), es, i)

RECURSIVE AndVar_lastTwice(_, _, _, _)
AndVar_lastTwice_rest(val, rands, i) ==
    IF val.r # "ok" THEN val
    ELSE IF IsFalse(val.v) THEN Done("ok", BooleanV(FALSE), val.env, val.st)
    ELSE AndVar_lastTwice(rands, i + 1, val.env, val.st)

\* an AndVar::eval that goes through the operands and then evaluates the
\* last one again for the result
AndVar_lastTwice(rands, i, e, st) ==
    IF i > Len(rands)
    THEN IF rands = <<>> THEN Done("ok", BooleanV(TRUE), e, st)
         ELSE Eval(rands[Len(rands)], e, st)
    ELSE AndVar_lastTwice_rest(Eval(rands[i], e, st), rands, i)

\* AndVar::eval, the loop body once operand i has been evaluated to val
AndVar_rest(val, rands, i) ==
    IF val.r # "ok" THEN val
    ELSE IF IsFalse(val.v) THEN Done("ok", BooleanV(FALSE), val.env, val.st)
    ELSE IF i = Len(rands) THEN val
    ELSE AndVar_eval(rands, i + 1, val.env, val.st)

\* AndVar::eval, the loop from operand i on
AndVar_eval(rands, i, e, st) ==
    IF i > Len(rands) THEN Done("ok", BooleanV(TRUE), e, st)
    ELSE AndVar_rest(Eval(rands[i], e, st), rands, i)

\* OrVar::eval, the loop body once operand i has been evaluated to val
OrVar_rest(val, rands, i) ==
    IF val.r # "ok" THEN val
    ELSE IF ~IsFalse(val.v) THEN val
    ELSE IF i = Len(rands) THEN Done("ok", BooleanV(FALSE), val.env, val.st)
    ELSE OrVar_eval(rands, i + 1, val.env, val.st)

\* OrVar::eval, the loop from operand i on
OrVar_eval(rands, i, e, st) ==
    IF i > Len(rands) THEN Done("ok", BooleanV(FALSE), e, st)
    ELSE OrVar_rest(Eval(rands[i], e, st), rands, i)

\* a Cond::eval that takes the clause whatever its test gave
Cond_takesAny(pred_value, clauses, i) ==
    IF pred_value.r # "ok" THEN pred_value
    ELSE evalLast(clauses[i], 2, pred_value.env, pred_value.st,
                  IF Len(clauses[i]) = 1 THEN pred_value.v ELSE VoidV)

\* Cond::eval, a clause whose test has been evaluated to pred_value
Cond_test(pred_value, clauses, i) ==
    IF pred_value.r # "ok" THEN pred_value
    ELSE IF ~IsFalse(pred_value.v)
    THEN evalLast(clauses[i], 2, pred_value.env, pred_value.st,
                  IF Len(clauses[i]) = 1 THEN pred_value.v ELSE VoidV)
    ELSE Cond_eval(clauses, i + 1, pred_value.env, pred_value.st)

\* Cond::eval, the loop from clause i on
Cond_eval(clauses, i, env, st) ==
    IF i > Len(clauses) THEN Done("ok", VoidV, env, st)
    ELSE IF clauses[i] = <<>> THEN Cond_eval(clauses, i + 1, env, st)
    ELSE IF clauses[i][1].c = "Var" /\ clauses[i][1].x = "else"
    THEN evalLast(clauses[i], 2, env, st, VoidV)
    ELSE Cond_test(Eval(clauses[i][1], env, st), clauses, i)

\* Unary::eval: evalRator(rand->eval(e))
Unary_apply(c, a) ==
    IF a.r # "ok" THEN a ELSE Finish(Unary_evalRator(c, a.v, a.st), a.env)

\* Variadic::eval: every operand evaluated, then evalRator(args)
Variadic_apply(c, args) ==
    IF args.r # "ok" THEN Throw(args.r, args.env, args.st)
    ELSE Finish(Variadic_evalRator(c, args.vs, args.st), args.env)

\* Binary::eval, both operands evaluated: a first, b second
Binary_apply(c, a, b) ==
    IF b.r # "ok" THEN b
    ELSE IF build.argOrder = "ltr"
    THEN Finish(Binary_evalRator(c, a.v, b.v, b.st), b.env)
    ELSE Finish(Binary_evalRator(c, b.v, a.v, b.st), b.env)

\* Binary::eval, the operand evaluated first has given a
Binary_second(ex, a) ==
    IF a.r # "ok" THEN a
    ELSE Binary_apply(ex.c, a,
                      Eval(IF build.argOrder = "ltr" THEN ex.rand2 ELSE ex.rand1,
                           a.env, a.st))

\* Binary::eval: evalRator(rand1->eval(e), rand2->eval(e)); the compiler
\* picks which operand is evaluated first (build.argOrder)
Binary_eval(ex, e, st) ==
    Binary_second(ex, Eval(IF build.argOrder = "ltr" THEN ex.rand1 ELSE ex.rand2,
                           e, st))

\* Begin::eval, the body after the internal definitions gave d
Begin_body(es, first_non_define, e, d) ==
    IF d.r # "ok" THEN Throw(d.r, e, d.st)
    ELSE Restore(evalLast(es, first_non_define + 1, d.env, d.st, VoidV), e)

\* Begin::eval, the internal definitions evaluated in new_env
Begin_defs(es, first_non_define, e, st, new_env) ==
    Begin_body(es, first_non_define, e,
               evalDefs(SubSeq(es, 1, first_non_define), 1, new_env.env,
                        [st EXCEPT !.frames = new_env.frames]))

\* Begin::eval, first loop: a slot for each internal definition
Begin_scan(es, first_non_define, e, st) ==
    IF first_non_define > 0
    THEN Begin_defs(es, first_non_define, e, st,
                    extendAll([i \in 1..first_non_define |-> es[i].var],
                              nullptrs(first_non_define), e, st.frames))
    ELSE evalLast(es, 1, e, st, VoidV)

\* Begin::eval
Begin_eval(es, e, st) ==
    IF Len(es) = 0 THEN Done("ok", VoidV, e, st)
    ELSE Begin_scan(es, leadingDefines(es, 1), e, st)

\* an Apply::eval that pushes the parameters on the caller's environment
callSiteEnv(clos, e) == e

\* Apply::eval, Assoc param_env = clos_ptr->env: the environment the
\* parameters are pushed on is the one the procedure captured, not e
param_env_of(clos, e) == clos.env

\* what an application did, kept for the properties: the procedure's
\* parameters and captured environment, and the environment of its body
logCall(st, clos, benv) ==
    [st EXCEPT !.calls = Append(@, [parameters |-> clos.parameters,
                                    cenv |-> clos.env, benv |-> benv])]

\* Apply::eval, the body evaluated in param_env; the caller keeps its env
Apply_body(clos, args, param_env, st) ==
    Restore(Eval(clos.body, param_env.env,
                 logCall([st EXCEPT !.frames = param_env.frames], clos,
                         param_env.env)),
            args.env)

\* Apply::eval, a procedure whose only parameter is args: the arguments are
\* bound as one list
Apply_list(clos, args, args_list) ==
    Apply_body(clos, args,
               extend("args", args_list.v, param_env_of(clos, args.env),
                      args_list.st.frames),
               args_list.st)

\* Apply::eval, the arguments evaluated
Apply_args(clos, args) ==
    IF args.r # "ok" THEN Throw(args.r, args.env, args.st)
    ELSE IF clos.parameters # <<"args">> /\ Len(args.vs) # Len(clos.parameters)
    THEN Throw("RuntimeError", args.env, args.st)
    ELSE IF clos.parameters = <<"args">> /\ clos.body.c \in VariadicClasses
    THEN Finish(Variadic_evalRator(clos.body.c, args.vs, args.st), args.env)
    ELSE IF clos.parameters = <<"args">>
    THEN Apply_list(clos, args, ListFunc_evalRator(args.vs, 1, args.st))
    ELSE Apply_body(clos, args,
                    extendAll(clos.parameters, args.vs,
                              param_env_of(clos, args.env), args.st.frames),
                    args.st)

\* Apply::eval, the operator evaluated to mid_fun
Apply_rator(ex, mid_fun) ==
    IF mid_fun.r # "ok" THEN mid_fun
    ELSE IF mid_fun.v.t # "V_PROC"
    THEN Throw("RuntimeError", mid_fun.env, mid_fun.st)
    ELSE Apply_args(mid_fun.v, evalArgs(ex.rand, 1, mid_fun.env, mid_fun.st, <<>>))

\* Apply::eval
Apply_eval(ex, e, st) == Apply_rator(ex, Eval(ex.rator, e, st))

\* a Define::eval that puts no test on the target's name
acceptsEveryName(var) == FALSE

\* Define::eval, primitives.count(var) || reserved_words.count(var)
isBuiltinName(var) == var \in DOMAIN primitives \/ var \in DOMAIN reserved_words

\* modify(var, val, env) once the right-hand side of a define or a set! has
\* been evaluated to val
storeValue(var, val) ==
    IF val.r # "ok" THEN val
    ELSE Done("ok", VoidV, val.env,
              [val.st EXCEPT !.frames = modify(var, val.v, val.env, @)])

\* Define::eval, the right-hand side evaluated in the extended env1
Define_slot(ex, st, env1) ==
    storeValue(ex.var, Eval(ex.body, env1.env, [st EXCEPT !.frames = env1.frames]))

\* Define::eval: the slot is pushed on the caller's environment before the
\* right-hand side is evaluated
Define_eval(ex, env, st) ==
    IF isBuiltinName(ex.var)
    THEN Throw("RuntimeError", env, st)
    ELSE Define_slot(ex, st, extend(ex.var, Nullptr, env, st.frames))

\* Let::eval, the body in the copy of env extended by the bindings
Let_body(ex, tobind, cur_env) ==
    Restore(Eval(ex.body, cur_env.env, [tobind.st EXCEPT !.frames = cur_env.frames]),
            tobind.env)

\* Let::eval, the right-hand sides evaluated
Let_bind(ex, env, tobind) ==
    IF tobind.r # "ok" THEN Throw(tobind.r, tobind.env, tobind.st)
    ELSE Let_body(ex, tobind,
                  extendAll(firsts(ex.bind), tobind.vs, env, tobind.st.frames))

\* Let::eval: the right-hand sides see env, the body sees the copy of env
\* taken on entry extended by the bindings
Let_eval(ex, env, st) ==
    Let_bind(ex, env, evalArgs(seconds(ex.bind), 1, env, st, <<>>))

\* Letrec::eval, the right-hand sides evaluated in env1: the slots are
\* filled by modify and the body evaluated
Letrec_body(ex, env, bindings) ==
    IF bindings.r # "ok" THEN Throw(bindings.r, env, bindings.st)
    ELSE Restore(Eval(ex.body, bindings.env,
                      [bindings.st EXCEPT
                          !.frames = modifyAll(firsts(ex.bind), bindings.vs,
                                               bindings.env, @)]),
                 env)

\* a Letrec::eval that evaluates the right-hand sides as Let::eval does, in
\* the environment outside the new slots
Letrec_rhsOutside(ex, env, st, env1) ==
    Letrec_body(ex, env,
                [evalArgs(seconds(ex.bind), 1, env,
                          [st EXCEPT !.frames = env1.frames], <<>>)
                    EXCEPT !.env = env1.env])

\* Letrec::eval, env1 holds an empty slot for each name
Letrec_bind(ex, env, st, env1) ==
    Letrec_body(ex, env,
                evalArgs(seconds(ex.bind), 1, env1.env,
                         [st EXCEPT !.frames = env1.frames], <<>>))

\* Letrec::eval
Letrec_eval(ex, env, st) ==
    Letrec_bind(ex, env, st,
                extendAll(firsts(ex.bind), nullptrs(Len(ex.bind)), env, st.frames))

\* Set::eval
Set_eval(ex, env, st) ==
    IF find(ex.var, env, st.frames) = Nullptr THEN Throw("RuntimeError", env, st)
    ELSE storeValue(ex.var, Eval(ex.body, env, st))

\* If::eval, the condition evaluated
If_branch(ex, valueof_condition) ==
    IF valueof_condition.r # "ok" THEN valueof_condition
    ELSE IF IsFalse(valueof_condition.v)
    THEN Eval(ex.alter, valueof_condition.env, valueof_condition.st)
    ELSE Eval(ex.conseq, valueof_condition.env, valueof_condition.st)

\* Lambda::eval: a new Procedure capturing e
Lambda_eval(o, e) == Done("ok", o.v, e, o.st)

\* Expr::eval, by class
Eval(ex, e, st) ==
    CASE ex.c = "Fixnum" -> Done("ok", IntegerV(ex.n), e, st)
      [] ex.c = "RationalNum" -> Finish(Fresh(RationalV(ex.n, ex.d), st), e)
      [] ex.c = "StringExpr" -> Finish(Fresh(Returns(StringV(ex.s)), st), e)
      [] ex.c = "True" -> Done("ok", BooleanV(TRUE), e, st)
      [] ex.c = "False" -> Done("ok", BooleanV(FALSE), e, st)
      [] ex.c = "MakeVoid" -> Done("ok", VoidV, e, st)
      [] ex.c = "Exit" -> Done("ok", TerminateV, e, st)
      [] ex.c \in UnaryClasses -> Unary_apply(ex.c, Eval(ex.rand, e, st))
      [] ex.c \in BinaryClasses -> Binary_eval(ex, e, st)
      [] ex.c \in VariadicClasses ->
           Variadic_apply(ex.c, evalArgs(ex.rands, 1, e, st, <<>>))
      [] ex.c = "Var" -> Var_eval(ex.x, e, st)
      [] ex.c = "Begin" -> Begin_eval(ex.es, e, st)
      [] ex.c = "Quote" -> Finish(Quote_eval(ex.stx, st), e)
      [] ex.c = "AndVar" -> AndVar_eval(ex.rands, 1, e, st)
      [] ex.c = "OrVar" -> OrVar_eval(ex.rands, 1, e, st)
      [] ex.c = "If" -> If_branch(ex, Eval(ex.cond, e, st))
      [] ex.c = "Cond" -> Cond_eval(ex.clauses, 1, e, st)
      [] ex.c = "Lambda" -> Lambda_eval(NewObject(ProcedureV(ex.xs, ex.body, e), st), e)
      [] ex.c = "Apply" -> Apply_eval(ex, e, st)
      [] ex.c = "Define" -> Define_eval(ex, e, st)
      [] ex.c = "Let" -> Let_eval(ex, e, st)
      [] ex.c = "Letrec" -> Letrec_eval(ex, e, st)
      [] ex.c = "Set" -> Set_eval(ex, e, st)

-----------------------------------------------------------------------------
(* The top-level forms of the model, as the reader would deliver them.     *)

Sym(s) == SymbolSyntax(s)
Call1(f, a) == List(<<Sym(f), a>>)
Call2(f, a, b) == List(<<Sym(f), a, b>>)
Call3(f, a, b, c) == List(<<Sym(f), a, b, c>>)
DefineForm(x, rhs) == List(<<Sym("define"), Sym(x), rhs>>)
LambdaForm(params, body) ==
    List(<<Sym("lambda"), List([i \in 1..Len(params) |-> Sym(params[i])]), body>>)
LetForm(x, rhs, body) == List(<<Sym("let"), List(<<List(<<Sym(x), rhs>>)>>), body>>)
LetrecForm(x, rhs, body) == List(<<Sym("letrec"), List(<<List(<<Sym(x), rhs>>)>>), body>>)
QuoteForm(stx) == List(<<Sym("quote"), stx>>)
ExitForm == List(<<Sym("exit")>>)

\* (define x 1), (define x (car 1)), x, 1/0, (set! x 2), y
DefineSuite ==
    {DefineForm("x", Number(1)),
     DefineForm("x", Call1("car", Number(1))),
     Sym("x"),
     RationalSyntax(1, 0),
     RationalSyntax(0, 0),
     Call2("set!", Sym("x"), Number(2)),
     Call2("/", Number(1), Number(0)),
     Sym("y"),
     ExitForm}

\* (lambda (a b) (quote bound)): the value the shadowing forms bind
BoundProc == LambdaForm(<<"a", "b">>, QuoteForm(Sym("bound")))

\* a variadic operator, an operator applied through its name, a reserved word
ShadowedNames == {"+", "car", "if"}

\* ((lambda (p) (p 1 2)) K), (let ((p K)) (p 1 2)), (letrec ((p K)) (p 1 2)),
\* (define (f p) (p 1 2)) and (f K)
LambdaShadow(p) == List(<<LambdaForm(<<p>>, Call2(p, Number(1), Number(2))), BoundProc>>)
LetShadow(p) == LetForm(p, BoundProc, Call2(p, Number(1), Number(2)))
LetrecShadow(p) == LetrecForm(p, BoundProc, Call2(p, Number(1), Number(2)))
SugarDefine(p) ==
    List(<<Sym("define"), List(<<Sym("f"), Sym(p)>>), Call2(p, Number(1), Number(2))>>)
SugarCall == Call1("f", BoundProc)

\* (define + (lambda (a b) (cons a b))) and (+ 1 2)
DefinePlus == DefineForm("+", LambdaForm(<<"a", "b">>, Call2("cons", Sym("a"), Sym("b"))))
Plus12 == Call2("+", Number(1), Number(2))

ShadowSuite ==
    {LambdaShadow(p) : p \in ShadowedNames}
        \cup {LetShadow(p) : p \in ShadowedNames}
        \cup {LetrecShadow(p) : p \in ShadowedNames}
        \cup {SugarDefine(p) : p \in ShadowedNames}
        \cup {SugarCall, DefinePlus, Plus12,
              DefineForm("if", Number(1)),
              List(<<Sym("define"), List(<<Sym("car"), Sym("a")>>), Sym("a")>>)}

\* (let ((y 1)) (let ((g (lambda () y))) (let ((y 2)) (g)))): g's y is 1
ScopeProbe ==
    LetForm("y", Number(1),
        LetForm("g", LambdaForm(<<>>, Sym("y")),
            LetForm("y", Number(2), List(<<Sym("g")>>))))

\* (define y 1), (define g (lambda () y)), ((lambda (y) (g)) 2),
\* (define mk (lambda (y) (lambda () y))), ((mk 5)), (g)
ScopeSuite ==
    {ScopeProbe,
     DefineForm("y", Number(1)),
     DefineForm("g", LambdaForm(<<>>, Sym("y"))),
     List(<<LambdaForm(<<"y">>, List(<<Sym("g")>>)), Number(2)>>),
     DefineForm("mk", LambdaForm(<<"y">>, LambdaForm(<<>>, Sym("y")))),
     List(<<Call1("mk", Number(5))>>),
     List(<<Sym("g")>>)}

VoidCall == List(<<Sym("void")>>)
Display1 == Call1("display", Number(1))

\* (void), (begin (void)), (if #t (void) 1), (if #f (void) (display 1)),
\* (cond (#t (void))), (define z 1), (display 1), (begin (display 1) (exit)),
\* (exit), 5
VoidSuite ==
    {VoidCall,
     Call1("begin", VoidCall),
     Call3("if", TrueSyntax, VoidCall, Number(1)),
     Call3("if", FalseSyntax, VoidCall, Display1),
     Call1("cond", List(<<TrueSyntax, VoidCall>>)),
     DefineForm("z", Number(1)),
     Display1,
     Call2("begin", Display1, ExitForm),
     ExitForm,
     Number(5)}

Cdr(stx) == Call1("cdr", stx)
ListQ(stx) == Call1("list?", stx)

\* (begin (set-cdr! cell tail) (list? p))
SetCdrAndAsk(cell, tail) == Call2("begin", Call2("set-cdr!", cell, tail), ListQ(Sym("p")))

\* the forms that ask list? about p
AskForms ==
    {ListQ(Sym("p")),
     SetCdrAndAsk(Sym("p"), Sym("p")),
     SetCdrAndAsk(Cdr(Sym("p")), Sym("p")),
     SetCdrAndAsk(Cdr(Cdr(Sym("p"))), Sym("p")),
     SetCdrAndAsk(Cdr(Cdr(Sym("p"))), Cdr(Sym("p"))),
     SetCdrAndAsk(Cdr(Sym("p")), Number(5)),
     SetCdrAndAsk(Cdr(Sym("p")), QuoteForm(List(<<>>)))}

\* (define p (list 1 2 3)), the forms that close the chain of p on one of
\* its cells, end it improperly or cut it short and then ask (list? p), a
\* set-car!, (list? (cdr p)), (define q (cons 0 p)),
\* (list? (quote (1 2 . 3)))
PairSuite ==
    AskForms \cup
    {DefineForm("p", Call3("list", Number(1), Number(2), Number(3))),
     Call2("set-car!", Sym("p"), Sym("p")),
     ListQ(Cdr(Sym("p"))),
     DefineForm("q", Call2("cons", Number(0), Sym("p"))),
     ListQ(QuoteForm(List(<<Number(1), Number(2), Sym("."), Number(3)>>)))}

\* the operand values of the and / or forms: #f, #t, 7
OperandValues == {FalseSyntax, TrueSyntax, Number(7)}

\* (op (begin (display 1) v1) ... (begin (display n) vn))
AndOrForm(op, vs) ==
    List(<<Sym(op)>> \o [i \in 1..Len(vs) |->
                            Call2("begin", Call1("display", Number(i)), vs[i])])

AndOrCases ==
    {[op |-> o, vs |-> q] :
        o \in {"and", "or"},
        q \in UNION {[1..n -> OperandValues] : n \in 0..MaxOperands}}

AndOrSuite == {AndOrForm(c.op, c.vs) : c \in AndOrCases}

\* (define t (exit)), t, (cons (exit) 1), ((lambda (x) 1) (exit)), (exit)
TerminateSuite ==
    {DefineForm("t", ExitForm),
     Sym("t"),
     Call2("cons", ExitForm, Number(1)),
     List(<<LambdaForm(<<"x">>, Number(1)), ExitForm>>),
     ExitForm}

\* (lambda (n) (if (= n 0) base (other (- n 1))))
ParityLambda(base, other) ==
    LambdaForm(<<"n">>,
               List(<<Sym("if"), Call2("=", Sym("n"), Number(0)), base,
                      Call1(other, Call2("-", Sym("n"), Number(1)))>>))

Letrec2Form(x1, rhs1, x2, rhs2, body) ==
    List(<<Sym("letrec"), List(<<List(<<Sym(x1), rhs1>>), List(<<Sym(x2), rhs2>>)>>),
           body>>)

\* (letrec ((even? ...) (odd? ...)) (f n))
EvenOdd(f, n) ==
    Letrec2Form("even?", ParityLambda(TrueSyntax, "odd?"),
                "odd?", ParityLambda(FalseSyntax, "even?"),
                Call1(f, Number(n)))

\* mutual recursion, a closure reading a sibling, a right-hand side reading
\* a sibling's slot before it is filled, a plain let for comparison
LetrecSuite ==
    {EvenOdd("even?", 10), EvenOdd("even?", 7), EvenOdd("odd?", 7),
     Letrec2Form("a", Number(5), "g", LambdaForm(<<>>, Sym("a")), List(<<Sym("g")>>)),
     Letrec2Form("g", LambdaForm(<<>>, Sym("a")), "a", Number(5), List(<<Sym("g")>>)),
     Letrec2Form("a", Sym("b"), "b", Number(1), Sym("a")),
     LetrecForm("f", ParityLambda(Number(0), "f"), Call1("f", Number(3))),
     LetForm("f", ParityLambda(Number(0), "f"), Call1("f", Number(3)))}

\* the parameter names of a lambda with k names before the collecting one
RestParams(k) == IF k = 0 THEN <<"rest", "...">> ELSE <<"x", "rest", "...">>

\* ((lambda (rest ...) rest) 1 .. m) and ((lambda (x rest ...) rest) 1 .. m)
VariadicCall(k, m) ==
    List(<<LambdaForm(RestParams(k), Sym("rest"))>> \o [i \in 1..m |-> Number(i)])

VariadicSuite == {VariadicCall(k, m) : k \in 0..1, m \in 0..3}

\* ((lambda params body) 1 .. m)
ArityCall(params, body, m) ==
    List(<<LambdaForm(params, body)>> \o [i \in 1..m |-> Number(i)])

\* the parameter lists of the arity suite, each applied to 0..3 arguments
\* with the last parameter as the body
ArityParams == {<<"a">>, <<"args">>, <<"a", "b">>}

LastOf(q) == q[Len(q)]

\* ((lambda (args) (+ 10 20 30)) 1) and ((lambda (a) (+ 10 20 30)) 1)
SumBodyCall(x) ==
    ArityCall(<<x>>, Call3("+", Number(10), Number(20), Number(30)), 1)

AritySuite ==
    {ArityCall(ps, Sym(LastOf(ps)), m) : ps \in ArityParams, m \in 0..3}
        \cup {SumBodyCall("a"), SumBodyCall("args")}

\* the operands the mutation suite gives to set-car! and set-cdr!
MutateTargets == {Sym("p"), Cdr(Sym("p")), Call1("car", Sym("p")), QuoteForm(List(<<>>))}
MutateValues == {Number(9), Sym("p")}
Mutators == {"set-car!", "set-cdr!"}

\* every mutator on every target with 9, and on p and (cdr p) with p itself
MutateCalls ==
    {Call2(op, t, Number(9)) : op \in Mutators, t \in MutateTargets}
        \cup {Call2("set-car!", Cdr(Sym("p")), Sym("p")), Call2("set-cdr!", Sym("p"), Sym("p"))}

\* (let ((p (cons 1 2))) (let ((q p)) (begin (op p 9) q)))
MutateThenReadAlias(op) ==
    LetForm("p", Call2("cons", Number(1), Number(2)),
            LetForm("q", Sym("p"),
                    Call2("begin", Call2(op, Sym("p"), Number(9)), Sym("q"))))

\* (define p (list 1 2 3)), the mutations, and the two forms that read the
\* mutated cell through another name
MutateSuite ==
    {DefineForm("p", Call3("list", Number(1), Number(2), Number(3)))}
        \cup MutateCalls
        \cup {MutateThenReadAlias(op) : op \in Mutators}

\* the primitive names the suite tries to define
DefinedPrimitives == {"car", "+"}

\* (begin (define x 1) x)
BeginDefines(x) == Call2("begin", DefineForm(x, Number(1)), Sym(x))

\* (begin 0 (define x 1))
BeginThenDefine(x) == Call2("begin", Number(0), DefineForm(x, Number(1)))

\* ((lambda () (define x 1)))
BodyDefines(x) == List(<<LambdaForm(<<>>, DefineForm(x, Number(1)))>>)

\* ((lambda () (define x 1) x))
BodyDefinesThenReads(x) ==
    List(<<List(<<Sym("lambda"), List(<<>>), DefineForm(x, Number(1)), Sym(x)>>)>>)

\* the places a define of x can stand in
DefinePlaces(x) ==
    {DefineForm(x, Number(1)), BeginDefines(x), BeginThenDefine(x),
     BodyDefines(x), BodyDefinesThenReads(x)}

PrimitiveDefineSuite == UNION {DefinePlaces(x) : x \in DefinedPrimitives}

\* the primitives of fixed operand count, by that count
UnaryPrimitives == {"car", "cdr"}
BinaryPrimitives == {"modulo", "expt", "cons", "eq?"}

\* (op (display 1) 2 3) for every one of them, (op (display 1)) for the
\* two-operand ones: the operand count is wrong and the first operand writes
WrongCountForms(op) ==
    {Call3(op, Display1, Number(2), Number(3))}
        \cup (IF op \in BinaryPrimitives THEN {Call1(op, Display1)} ELSE {})

\* the wrong counts, and (cons (display 1) 2) with the right one
WrongCountSuite ==
    UNION {WrongCountForms(op) : op \in UnaryPrimitives \cup BinaryPrimitives}
        \cup {Call2("cons", Display1, Number(2))}

ArithmeticOps == {"+", "-", "*", "/"}
ComparisonOps == {"<", "<=", "=", ">=", ">"}
Half == RationalSyntax(1, 2)

\* the operand lists with a Boolean among numbers: alone, in either place of
\* two, in every place of three, and after a rational in three
IllTypedOperands ==
    {<<TrueSyntax>>,
     <<TrueSyntax, Number(1)>>, <<Number(1), TrueSyntax>>,
     <<TrueSyntax, Number(1), Number(2)>>, <<Number(1), TrueSyntax, Number(2)>>,
     <<Number(1), Number(2), TrueSyntax>>,
     <<Half, TrueSyntax, Number(1)>>, <<Half, Number(1), TrueSyntax>>}

\* (op operand ...)
OpCall(op, operands) == List(<<Sym(op)>> \o operands)

IllTypedSuite ==
    {OpCall(op, xs) : op \in ArithmeticOps \cup ComparisonOps, xs \in IllTypedOperands}

ExptBases == {-2, 0, 1, 2, 3, 65536}
ExptExponents == {-1, 0, 1, 2, 30, 31}

\* (expt b e)
ExptCall(b, e) == Call2("expt", Number(b), Number(e))

ExptSuite == {ExptCall(b, e) : b \in ExptBases, e \in ExptExponents}

\* no operand, or one Integer or Rational literal
FewOperands ==
    {<<>>}
        \cup {<<Number(n)>> : n \in {-2, 0, 1, 3}}
        \cup {<<RationalSyntax(n, d)>> : n \in {-2, 0, 1}, d \in {1, 3}}

\* ((lambda (f) (f operand ...)) op): the operator as a procedure value
ThroughValue(op, operands) ==
    List(<<LambdaForm(<<"f">>, List(<<Sym("f")>> \o operands)), Sym(op)>>)

FewOperandsSuite ==
    {OpCall(op, xs) : op \in ArithmeticOps, xs \in FewOperands}
        \cup {ThroughValue(op, xs) : op \in ArithmeticOps, xs \in FewOperands}

\* the elements of the quoted lists: a number, a symbol and the dot
QuoteElements == {Number(1), Sym("a"), Sym(".")}

\* every list of up to four of them
QuotedLists == UNION {[1..n -> QuoteElements] : n \in 0..4}

QuoteSuite == {QuoteForm(List(xs)) : xs \in QuotedLists}

\* the tests of the cond suite; the symbol else stands for an else clause
CondTests == {FalseSyntax, TrueSyntax, Number(5), Sym("else")}

\* the clauses of a cond: for each its test and whether it has a body
CondCases ==
    UNION {[1..n -> [test : CondTests, bodied : BOOLEAN]] : n \in 1..2}

\* clause i of a case: ((begin (display i) test) (display 10+i) 20+i), the
\* head being else itself for an else clause and the body left out when the
\* clause has none
CondClause(cl, i) ==
    List(<<IF cl.test = Sym("else") THEN cl.test
           ELSE Call2("begin", Call1("display", Number(i)), cl.test)>>
         \o (IF cl.bodied THEN <<Call1("display", Number(10 + i)), Number(20 + i)>>
             ELSE <<>>))

CondForm(c) == List(<<Sym("cond")>> \o [i \in 1..Len(c) |-> CondClause(c[i], i)])

CondSuite == {CondForm(c) : c \in CondCases}

\* (set! x e)
SetForm(x, e) == List(<<Sym("set!"), Sym(x), e>>)

\* (let ((x 1)) (let ((g (lambda () x))) (begin (set! x 3) (g)))): the
\* closure g shares the frame of x that set! writes
SetSeenByClosure ==
    LetForm("x", Number(1),
        LetForm("g", LambdaForm(<<>>, Sym("x")),
            Call2("begin", SetForm("x", Number(3)), List(<<Sym("g")>>))))

\* (let ((x 1)) (let ((g (lambda () x))) (let ((x 2))
\*     (begin (set! x 3) (cons x (g)))))): the inner x shadows the one g reads
SetShadowed ==
    LetForm("x", Number(1),
        LetForm("g", LambdaForm(<<>>, Sym("x")),
            LetForm("x", Number(2),
                Call2("begin", SetForm("x", Number(3)),
                      Call2("cons", Sym("x"), List(<<Sym("g")>>))))))

\* the top-level assignments of the set! suite
TopLevelSets == {SetForm("x", Number(2)), SetForm("y", Number(2))}

SetSuite ==
    {DefineForm("x", Number(1)), SetSeenByClosure, SetShadowed} \cup TopLevelSets

\* the primitives applied directly and through their procedure value
FirstClassPrimitives == ArithmeticOps \cup ComparisonOps \cup {"modulo", "not"}

\* their argument lists: none, one number, one Boolean, two and three
\* numbers, a zero divisor, a rational, a Boolean first
FirstClassOperands ==
    {<<>>, <<Number(1)>>, <<TrueSyntax>>, <<Number(4), Number(2)>>,
     <<Number(1), Number(0)>>, <<Half, Number(1)>>,
     <<Number(1), Number(2), Number(3)>>, <<TrueSyntax, Number(1)>>}

FirstClassSuite ==
    {OpCall(p, xs) : p \in FirstClassPrimitives, xs \in FirstClassOperands}
        \cup {ThroughValue(p, xs) : p \in FirstClassPrimitives, xs \in FirstClassOperands}

\* (define g (lambda () x)): a top-level procedure referring to the global x
DefineReader == DefineForm("g", LambdaForm(<<>>, Sym("x")))

\* (g)
CallReader == List(<<Sym("g")>>)

\* the values x is defined with
GlobalValues == {1, 2}

GlobalSuite == {DefineReader, CallReader} \cup {DefineForm("x", Number(n)) : n \in GlobalValues}

\* a top-level begin with (define x 1) alone, first of two, and second
BeginDefineForms ==
    {List(<<Sym("begin"), DefineForm("x", Number(1))>>),
     List(<<Sym("begin"), DefineForm("x", Number(1)), Number(7)>>),
     List(<<Sym("begin"), Number(7), DefineForm("x", Number(1))>>),
     List(<<Sym("begin"), Number(7), DefineForm("x", Number(1)), Number(8)>>)}

BeginDefineSuite == BeginDefineForms \cup {Sym("x")}

\* dividend and divisor with an integer quotient
ExactDivisions == {<<4, 2>>, <<6, 2>>, <<6, 3>>, <<3, 1>>}

Quotient(ab) == ab[1] \div ab[2]

\* the forms whose exact value is the integer a/b: (/ a b), (/ a b 1) and
\* the product (* 2a/b 1/2) of an Integer and a Rational
IntegerProducers(ab) ==
    {Call2("/", Number(ab[1]), Number(ab[2])),
     Call3("/", Number(ab[1]), Number(ab[2]), Number(1)),
     Call2("*", Number(2 * Quotient(ab)), Half)}

IntegerConsumers == {"number?", "eq?", "modulo", "expt"}

\* (number? p), (eq? p n), (modulo p 3), (expt p 2)
Consume(c, p, n) ==
    CASE c = "number?" -> Call1("number?", p)
      [] c = "eq?" -> Call2("eq?", p, Number(n))
      [] c = "modulo" -> Call2("modulo", p, Number(3))
      [] c = "expt" -> Call2("expt", p, Number(2))

IntegerKindSuite ==
    UNION {{Consume(c, p, Quotient(ab)) : c \in IntegerConsumers,
                                         p \in IntegerProducers(ab) \cup {Number(Quotient(ab))}}
           : ab \in ExactDivisions}

SuiteNames ==
    {"define", "shadow", "scope", "void", "pairs", "andor", "terminate",
     "letrec", "variadic", "arity", "mutate", "primdefine", "wrongcount",
     "illtyped", "expt", "fewoperands", "primdefine", "quote", "cond",
     "set", "firstclass", "global", "begindefine", "integerkind"}

\* the forms the input may hold, and how many of them
InputForms(s) ==
    CASE s = "define" -> DefineSuite
      [] s = "shadow" -> ShadowSuite
      [] s = "scope" -> ScopeSuite
      [] s = "void" -> VoidSuite
      [] s = "pairs" -> PairSuite
      [] s = "andor" -> AndOrSuite
      [] s = "terminate" -> TerminateSuite
      [] s = "letrec" -> LetrecSuite
      [] s = "variadic" -> VariadicSuite
      [] s = "arity" -> AritySuite
      [] s = "mutate" -> MutateSuite
      [] s = "primdefine" -> PrimitiveDefineSuite
      [] s = "wrongcount" -> WrongCountSuite
      [] s = "illtyped" -> IllTypedSuite
      [] s = "expt" -> ExptSuite
      [] s = "fewoperands" -> FewOperandsSuite
      [] s = "quote" -> QuoteSuite
      [] s = "cond" -> CondSuite
      [] s = "set" -> SetSuite
      [] s = "firstclass" -> FirstClassSuite
      [] s = "global" -> GlobalSuite
      [] s = "begindefine" -> BeginDefineSuite
      [] s = "integerkind" -> IntegerKindSuite

\* the suites whose forms leave nothing behind that a later form could see:
\* one form of them is read
SingleFormSuites ==
    {"andor", "letrec", "variadic", "arity", "wrongcount", "illtyped",
     "expt", "fewoperands", "primdefine", "quote", "cond", "firstclass", "integerkind"}

\* the suites whose case needs two forms more than the others
LongSuites == {"global"}

InputLen(s) ==
    IF s \in SingleFormSuites THEN 1
    ELSE IF s \in LongSuites THEN MaxForms + 2
    ELSE MaxForms

-----------------------------------------------------------------------------
(* REPL: main.cpp.  One action per iteration of the while (1) loop.        *)

\* a REPL that never takes a value for the Terminate value
neverTerminate(val) == FALSE

\* val->v_type == V_TERMINATE
IsTerminate(val) == val.t = "V_TERMINATE"

\* val->v_type != V_VOID
IsPrinted(val) == val.t # "V_VOID"

\* isExplicitVoidCall of main.cpp (which REPL does not call)
RECURSIVE isExplicitVoidCall(_)
isExplicitVoidCall(expr) ==
    \/ expr.c = "MakeVoid"
    \/ expr.c = "Apply" /\ expr.rator.c = "Var" /\ expr.rator.x = "void"
    \/ expr.c = "Begin" /\ expr.es # <<>> /\ isExplicitVoidCall(expr.es[Len(expr.es)])
    \/ expr.c = "If" /\ (isExplicitVoidCall(expr.conseq) \/ isExplicitVoidCall(expr.alter))
    \/ expr.c = "Cond" /\ \E i \in 1..Len(expr.clauses) :
          /\ Len(expr.clauses[i]) > 1
          /\ isExplicitVoidCall(expr.clauses[i][Len(expr.clauses[i])])

\* expr->eval(global_env), with what the parse or the evaluation throws
evalParsed(expr, st) ==
    [expr |-> expr,
     res |-> IF expr = Trap THEN Throw("SIGFPE", global_env, st)
             ELSE IF expr = ParseError THEN Throw("RuntimeError", global_env, st)
             ELSE Eval(expr, global_env, st)]

\* stx->parse(global_env) then expr->eval(global_env)
parseEval(stx) ==
    evalParsed(parse(stx, ParseEnv(global_env), frames),
               [frames |-> frames, pairs |-> pairs, out |-> out, nid |-> nid,
                calls |-> <<>>])

\* what the loop body writes after the evaluation, and where it leaves REPL
replOutcome(res) ==
    IF res.r = "ok"
    THEN IF IsTerminate(res.v) THEN [printed |-> <<>>, status |-> "terminated"]
         ELSE IF IsPrinted(res.v)
         THEN LET sh == Show(res.v, res.st.pairs, Len(res.st.pairs))
              IN  IF sh.ok THEN [printed |-> <<sh.s, "\n">>, status |-> "running"]
                  ELSE [printed |-> <<>>, status |-> "diverges"]
         ELSE [printed |-> <<>>, status |-> "running"]
    ELSE IF res.r = "RuntimeError"
    THEN [printed |-> <<"RuntimeError", "\n">>, status |-> "running"]
    ELSE IF res.r \in {"std_runtime_error", "SIGFPE"}
    THEN [printed |-> <<>>, status |-> "aborted"]
    ELSE [printed |-> <<>>, status |-> res.r]

\* the state one iteration leaves: pe the parse and evaluation of stx, o
\* what the loop body printed after it
replCommit(stx, pe, o) ==
    /\ global_env' = pe.res.env
    /\ frames' = pe.res.st.frames
    /\ pairs' = pe.res.st.pairs
    /\ nid' = pe.res.st.nid
    /\ out' = pe.res.st.out \o o.printed
    /\ status' = o.status
    /\ last' = [stx |-> stx, expr |-> pe.expr, r |-> pe.res.r, v |-> pe.res.v,
                printed |-> o.printed,
                eout |-> SubSeq(pe.res.st.out, Len(out) + 1, Len(pe.res.st.out)),
                calls |-> pe.res.st.calls]

replPrint(stx, pe) == replCommit(stx, pe, replOutcome(pe.res))

\* one iteration: read stx, parse, evaluate, print
ReplIteration(stx) ==
    /\ status = "running"
    /\ Len(hist) < InputLen(suite)
    /\ replPrint(stx, parseEval(stx))
    /\ hist' = Append(hist, stx)
    /\ UNCHANGED <<suite, build, arith>>

\* readSyntax at the end of the input: the loop is left
ReplEOF ==
    /\ status = "running"
    /\ status' = "eof"
    /\ UNCHANGED <<global_env, frames, pairs, nid, out, hist, last, suite, build, arith>>

NoIteration ==
    [stx |-> List(<<>>), expr |-> ParseError, r |-> "none", v |-> Nullptr,
     printed |-> <<>>, eout |-> <<>>, calls |-> <<>>]

Builds == [argOrder : {"ltr", "rtl"}, divTraps : BOOLEAN]

Init ==
    /\ global_env = empty
    /\ frames = <<>>
    /\ pairs = <<>>
    /\ nid = 0
    /\ out = <<>>
    /\ status = "running"
    /\ hist = <<>>
    /\ last = NoIteration
    /\ suite \in SuiteNames
    /\ build \in Builds
    /\ arith = [v |-> IntegerV(0), ops |-> 0]

Next ==
    \/ \E stx \in InputForms(suite) : ReplIteration(stx)
    \/ ReplEOF

Spec == Init /\ [][Next]_vars

-----------------------------------------------------------------------------
(* Properties. *)

\* the names bound somewhere in the frame store
BoundNames == {frames[i].x : i \in 1..Len(frames)}

\* how a parse or an evaluation can fail
Failures == {"RuntimeError", "std_runtime_error", "SIGFPE", "undefined"}

\* C1: when the parse or evaluation of a top-level form fails with
\* RuntimeError, every name that resolved in the global environment before
\* the form resolves to the same value after it; in particular a define whose
\* right-hand side fails leaves the earlier binding of the name intact.
C1_FailedFormKeepsBindings ==
    [][(hist' # hist /\ last'.r = "RuntimeError") =>
          \A x \in BoundNames :
              find(x, global_env, frames) # Nullptr =>
                  find(x, global_env', frames') = find(x, global_env, frames)]_vars

\* C1, the state the code reaches instead: x was bound to 1, the define of x
\* failed, and x now resolves to the empty slot that define pushed
C1_FailedDefineShadows ==
    /\ hist = <<DefineForm("x", Number(1)), DefineForm("x", Call1("car", Number(1)))>>
    /\ last.r = "RuntimeError"
    /\ find("x", global_env, frames) = Nullptr
    /\ \E i \in 1..Len(frames) : frames[i].x = "x" /\ frames[i].v = IntegerV(1)

\* C2: whatever makes the parse or evaluation of a top-level form fail, REPL
\* prints RuntimeError on a line of its own and goes on reading; the loop is
\* left only on the Terminate value or at the end of the input.
C2_EveryFailureReportedAndSurvived ==
    [][/\ (hist' # hist /\ last'.r \in Failures) =>
             (last'.printed = <<"RuntimeError", "\n">> /\ status' = "running")
       /\ (hist' # hist /\ status' # "running") => IsTerminate(last'.v)
       /\ (hist' = hist /\ status' # status) => status' = "eof"]_vars

\* C2, the state the code reaches instead: the literal 1/0 was evaluated, the
\* std::runtime_error of Rational::Rational passed REPL's handler, nothing
\* was printed and the process is gone
C2_RationalLiteralAborts ==
    /\ last.stx = RationalSyntax(1, 0)
    /\ last.r = "std_runtime_error"
    /\ last.printed = <<>>
    /\ status = "aborted"

\* the last two forms read were f1 then f2
ReadLast2(f1, f2) ==
    /\ Len(hist) >= 2
    /\ hist[Len(hist) - 1] = f1
    /\ hist[Len(hist)] = f2

\* C3: when a lambda parameter, a parameter of the function-sugar define, a
\* let binding or a letrec binding binds a primitive or reserved name, an
\* application with that name in head position inside the scope applies the
\* bound value, never the built-in operator or reserved form.
C3_BoundNameWinsInHeadPosition ==
    \A p \in ShadowedNames :
        /\ last.stx \in {LambdaShadow(p), LetShadow(p), LetrecShadow(p)} =>
               (last.r = "ok" /\ last.v = SymbolV("bound"))
        /\ ReadLast2(SugarDefine(p), SugarCall) =>
               (last.r = "ok" /\ last.v = SymbolV("bound"))

\* C3, the state the code reaches instead: (define (f +) (+ 1 2)) was parsed
\* with + still the built-in, so (f K) adds 1 and 2
C3_SugarParameterNotShadowing ==
    /\ ReadLast2(SugarDefine("+"), SugarCall)
    /\ last.r = "ok"
    /\ last.v = IntegerV(3)

\* the value is a pair (a . b) of integers
IsPairOf(v, a, b) ==
    /\ v.t = "V_PAIR"
    /\ pairs[v.a].car = IntegerV(a)
    /\ pairs[v.a].cdr = IntegerV(b)

\* C4 as stated: a top-level define of a primitive name succeeds and later
\* applications use the user's value: after
\* (define + (lambda (a b) (cons a b))), (+ 1 2) is the pair (1 . 2).
C4_PrimitiveRedefinitionShadows ==
    ReadLast2(DefinePlus, Plus12) => (last.r = "ok" /\ IsPairOf(last.v, 1, 2))

\* C4 as the code has it: a top-level define whose target is a primitive or
\* reserved name fails with RuntimeError and leaves the global environment
\* as it was, and (+ 1 2) at top level is always the built-in sum 3.
C4_PrimitiveRedefinitionRejected ==
    /\ [][(hist' # hist /\ last'.expr.c = "Define"
              /\ (last'.expr.var \in DOMAIN primitives
                    \/ last'.expr.var \in DOMAIN reserved_words)) =>
             /\ last'.r = "RuntimeError"
             /\ last'.printed = <<"RuntimeError", "\n">>
             /\ global_env' = global_env
             /\ frames' = frames]_vars
    /\ [](last.stx = Plus12 => (last.r = "ok" /\ last.v = IntegerV(3)))

\* C4, its case: (define + ...) was rejected and (+ 1 2) then printed 3
C4_RejectedThenBuiltinSum ==
    /\ ReadLast2(DefinePlus, Plus12)
    /\ last.v = IntegerV(3)
    /\ last.printed = <<"3", "\n">>
    /\ global_env = empty

\* the elements of a sequence
Range(q) == {q[i] : i \in 1..Len(q)}

\* C5: at every application of a procedure, each free variable of the body
\* resolves to the frame that is visible from the environment the lambda was
\* evaluated in, never to a frame that only the call site can see.
C5_FreeVariablesResolveLexically ==
    /\ \A i \in 1..Len(last.calls) :
           \A x \in BoundNames \ Range(last.calls[i].parameters) :
               findFrame(x, last.calls[i].benv, frames)
                   = findFrame(x, last.calls[i].cenv, frames)
    /\ last.stx = ScopeProbe => (last.r = "ok" /\ last.v = IntegerV(1))

\* C5, its case: g was applied where another y = 2 was in scope, and the y
\* of its body was the y = 1 of its definition
C5_CalledUnderAnotherBinding ==
    /\ last.stx = ScopeProbe
    /\ last.v = IntegerV(1)
    /\ \E i \in 1..Len(last.calls) :
           /\ last.calls[i].parameters = <<>>
           /\ \E j \in 1..Len(frames) :
                  /\ frames[j].x = "y"
                  /\ frames[j].v = IntegerV(2)
                  /\ j > last.calls[i].cenv

\* C6: for a top-level form that evaluates to Void, REPL prints #<void> and a
\* newline when the form is syntactically an explicit void invocation, and
\* prints nothing otherwise.
C6_VoidPrintedOnlyWhenExplicit ==
    (last.r = "ok" /\ last.v = VoidV) =>
        last.printed = IF isExplicitVoidCall(last.expr) THEN <<"#<void>", "\n">>
                       ELSE <<>>

\* C6, the state the code reaches instead: (void) was read and evaluated and
\* REPL wrote nothing
C6_ExplicitVoidPrintsNothing ==
    /\ last.stx = VoidCall
    /\ isExplicitVoidCall(last.expr)
    /\ last.r = "ok"
    /\ last.v = VoidV
    /\ last.printed = <<>>
    /\ out = <<>>

\* C7: once a top-level form evaluates to the Terminate value REPL leaves
\* its loop: nothing is printed for that form, and no later form is read,
\* parsed, evaluated or printed.
C7_TerminateLeavesTheLoop ==
    /\ [][(hist' # hist /\ last'.r = "ok" /\ last'.v = TerminateV) =>
             (status' = "terminated" /\ last'.printed = <<>>)]_vars
    /\ [][status = "terminated" => UNCHANGED vars]_vars

\* C7, its case: (begin (display 1) (exit)) ended the loop after display
\* wrote 1, with nothing written by REPL
C7_ExitedAfterDisplay ==
    /\ status = "terminated"
    /\ last.stx = Call2("begin", Display1, ExitForm)
    /\ out = <<"1">>

RECURSIVE ProperList(_, _, _)
\* v is Null or a chain of at most fuel cells whose last cdr is Null
ProperList(v, ps, fuel) ==
    \/ v.t = "V_NULL"
    \/ v.t = "V_PAIR" /\ fuel > 0 /\ ProperList(ps[v.a].cdr, ps, fuel - 1)

RECURSIVE CdrChainCycles(_, _, _)
\* the cdr chain from v is still among the cells after fuel steps
CdrChainCycles(v, ps, fuel) ==
    /\ v.t = "V_PAIR"
    /\ (fuel = 0 \/ CdrChainCycles(ps[v.a].cdr, ps, fuel - 1))

\* every value the heap or an environment holds
HeapValues ==
    {PairAt(a) : a \in 1..Len(pairs)}
        \cup {pairs[a].car : a \in 1..Len(pairs)}
        \cup {pairs[a].cdr : a \in 1..Len(pairs)}
        \cup ({frames[i].v : i \in 1..Len(frames)} \ {Nullptr})

\* C8: on every value built by cons, list, set-car! and set-cdr!, cyclic
\* chains included, list? returns, and it returns true exactly when the value
\* is Null or a chain of pairs whose cdr chain ends in Null.
C8_ListPredicateDecidesProperLists ==
    /\ \A v \in HeapValues \cup {NullV} :
           IsList_evalRator(v, pairs) = BooleanV(ProperList(v, pairs, Len(pairs)))
    /\ (last.r = "ok" /\ last.stx \in AskForms) =>
           last.v = BooleanV(ProperList(find("p", global_env, frames), pairs, Len(pairs)))

\* C8, its case: p is a chain that runs into itself and (list? p) printed #f
C8_CyclicChainRejected ==
    /\ last.stx = SetCdrAndAsk(Cdr(Cdr(Sym("p"))), Cdr(Sym("p")))
    /\ CdrChainCycles(find("p", global_env, frames), pairs, Len(pairs))
    /\ last.v = BooleanV(FALSE)
    /\ last.printed = <<"#f", "\n">>

-----------------------------------------------------------------------------
(* The arithmetic harness: number literals and + - * / applied to the      *)
(* number computed so far, with the constructors and evalRator methods of  *)
(* the evaluator.  REPL is not involved and its variables stay put.        *)

LitNums == (-MaxLit)..MaxLit

\* the number syntax nodes of the harness: integers and n/d, d # 0
NumberLiterals ==
    {Number(n) : n \in LitNums}
        \cup {RationalSyntax(n, d) : n \in LitNums, d \in LitNums \ {0}}

\* Number::parse and RationalSyntax::parse, then Fixnum::eval and
\* RationalNum::eval
LiteralValue(stx) ==
    IF stx.k = "Number" THEN Returns(IntegerV(stx.n))
    ELSE LET e == RationalNum(stx.n, stx.d) IN RationalV(e.n, e.d)

\* the value is kept when it was computed and is not too large
Kept(res) ==
    /\ res.r = "ok"
    /\ Abs(res.v.n) <= MaxAbs
    /\ IsRat(res.v) => res.v.d <= MaxAbs

ArithStep(res) ==
    /\ arith.ops < MaxOps
    /\ Kept(res)
    /\ arith' = [v |-> res.v, ops |-> arith.ops + 1]
    /\ UNCHANGED <<global_env, frames, pairs, nid, out, status, hist, last, suite, build>>

\* a literal is evaluated
ArithLiteral(stx) == ArithStep(LiteralValue(stx))

\* (op acc lit) or (op lit acc): Plus, Minus, Mult, Div
ArithBinary(c, stx, accFirst) ==
    LET lit == LiteralValue(stx)
    IN  /\ lit.r = "ok"
        /\ ArithStep(IF accFirst THEN Numeric_evalRator(c, arith.v, lit.v)
                     ELSE Numeric_evalRator(c, lit.v, arith.v))

\* (op acc), and (op lit acc lit): PlusVar, MinusVar, MultVar, DivVar
ArithVariadic(c, stx, alone) ==
    LET lit == LiteralValue(stx)
    IN  /\ lit.r = "ok"
        /\ ArithStep(IF alone THEN NumericVar_evalRator(c, <<arith.v>>)
                     ELSE NumericVar_evalRator(c, <<lit.v, arith.v, lit.v>>))

InitArith ==
    /\ global_env = empty
    /\ frames = <<>>
    /\ pairs = <<>>
    /\ nid = 0
    /\ out = <<>>
    /\ status = "running"
    /\ hist = <<>>
    /\ last = NoIteration
    /\ suite = "arith"
    /\ build \in Builds
    /\ arith = [v |-> IntegerV(0), ops |-> 0]

NextArith ==
    \/ \E stx \in NumberLiterals : ArithLiteral(stx)
    \/ \E c \in {"Plus", "Minus", "Mult", "Div"}, stx \in NumberLiterals,
          accFirst \in BOOLEAN : ArithBinary(c, stx, accFirst)
    \/ \E c \in {"PlusVar", "MinusVar", "MultVar", "DivVar"}, stx \in NumberLiterals,
          alone \in BOOLEAN : ArithVariadic(c, stx, alone)

SpecArith == InitArith /\ [][NextArith]_vars

\* k divides n
Divides(k, n) == n % k = 0

\* C9: and / or evaluate their operands in order, each evaluated operand
\* exactly once, none after the first determining one (the first Boolean
\* false for and, the first non-false value for or); and with no false
\* operand returns the value of the last one, or returns the first non-false
\* value, and with none returns false.
C9_AndOrEvaluateInOrderOnce ==
    \A c \in AndOrCases :
        last.stx = AndOrForm(c.op, c.vs) =>
            LET n == Len(c.vs)
                valueOf(stx) == CASE stx = FalseSyntax -> BooleanV(FALSE)
                                  [] stx = TrueSyntax -> BooleanV(TRUE)
                                  [] OTHER -> IntegerV(stx.n)
                determines(i) == IF c.op = "and" THEN c.vs[i] = FalseSyntax
                                 ELSE c.vs[i] # FalseSyntax
                det == {i \in 1..n : determines(i)}
                first == IF det = {} THEN 0 ELSE CHOOSE i \in det : \A j \in det : i <= j
                evaluated == IF first = 0 THEN n ELSE first
            IN  /\ last.r = "ok"
                /\ last.eout = [i \in 1..evaluated |-> ToString(i)]
                /\ last.v = IF c.op = "and"
                            THEN IF first # 0 THEN BooleanV(FALSE)
                                 ELSE IF n = 0 THEN BooleanV(TRUE)
                                 ELSE valueOf(c.vs[n])
                            ELSE IF first # 0 THEN valueOf(c.vs[first])
                                 ELSE BooleanV(FALSE)

\* C9, its case: (and (begin (display 1) 7) (begin (display 2) 7)) wrote 1
\* and 2 once each and printed 7
C9_AndReturnedLastOperand ==
    /\ last.stx = AndOrForm("and", <<Number(7), Number(7)>>)
    /\ last.v = IntegerV(7)
    /\ out = <<"1", "2", "7", "\n">>

\* C10: every Rational value that literals and + - * / produce has a positive
\* denominator and is in lowest terms, and one whose denominator is 1 is
\* printed as its numerator alone.
C10_RationalsNormalised ==
    IsRat(arith.v) =>
        /\ arith.v.d > 0
        /\ \A k \in 2..arith.v.d : ~(Divides(k, arith.v.n) /\ Divides(k, arith.v.d))
        /\ arith.v.d = 1 => Show(arith.v, <<>>, 0).s = ToString(arith.v.n)
        /\ arith.v.d # 1 =>
               Show(arith.v, <<>>, 0).s
                   = ToString(arith.v.n) \o "/" \o ToString(arith.v.d)

\* C10, its case: a division gave the Rational -2/1, which prints as -2
C10_WholeRationalPrintsAsInteger ==
    /\ arith.ops = MaxOps
    /\ arith.v = [t |-> "V_RATIONAL", n |-> -2, d |-> 1]
    /\ Show(arith.v, <<>>, 0).s = "-2"

\* C11: the Terminate value is never held as a regular value: no slot of an
\* environment frame (a procedure's argument is one) and no car or cdr of a
\* pair holds it, and a top-level form that evaluates to it ends REPL.
C11_TerminateNeverHeld ==
    /\ \A i \in 1..Len(frames) : frames[i].v # TerminateV
    /\ \A a \in 1..Len(pairs) :
           pairs[a].car # TerminateV /\ pairs[a].cdr # TerminateV
    /\ (last.r = "ok" /\ last.v = TerminateV) => status = "terminated"

\* C11, the state the code reaches instead: (define t (exit)) stored the
\* Terminate value in the slot of t and REPL went on reading
C11_TerminateBoundToName ==
    /\ hist = <<DefineForm("t", ExitForm)>>
    /\ last.r = "ok"
    /\ last.v = VoidV
    /\ status = "running"
    /\ find("t", global_env, frames) = TerminateV

\* the value Letrec::eval stores for a right-hand side evaluated in env1
LetrecSlotValue(rhs, v, env1) ==
    IF rhs.c = "Lambda"
    THEN v.t = "V_PROC" /\ v.parameters = rhs.xs /\ v.body = rhs.body /\ v.env = env1
    ELSE IF rhs.c = "Fixnum" THEN v = IntegerV(rhs.n)
    ELSE v # Nullptr

\* the frames a successful top-level letrec has allocated on top of the
\* old store: one slot per name, chained from the global environment, each
\* holding the value of its right-hand side, closures capturing the
\* environment that holds all the slots
LetrecSlots(bind, base, genv, fr) ==
    \A i \in 1..Len(bind) :
        /\ fr[base + i].x = bind[i].first
        /\ fr[base + i].next = (IF i = 1 THEN genv ELSE base + i - 1)
        /\ LetrecSlotValue(bind[i].second, fr[base + i].v, base + Len(bind))

\* C12: letrec evaluates every right-hand side in an environment that
\* already holds a slot for each of the names; after the initialisation
\* each name resolves to the value of its right-hand side in the body and
\* inside the closures the right-hand sides created, so that the mutually
\* recursive even?/odd? applied to 10 yields #t
\* the answer of the last form
Answers(stx, v) == last'.stx = stx => (last'.r = "ok" /\ last'.v = v)

C12_LetrecSlotsThenValues ==
    [][hist' # hist
       => /\ (last'.expr.c = "Letrec" /\ last'.r = "ok")
             => LetrecSlots(last'.expr.bind, Len(frames), global_env, frames')
          /\ Answers(EvenOdd("even?", 10), BooleanV(TRUE))
          /\ Answers(EvenOdd("even?", 7), BooleanV(FALSE))
          /\ Answers(EvenOdd("odd?", 7), BooleanV(TRUE))
          /\ Answers(Letrec2Form("a", Number(5), "g", LambdaForm(<<>>, Sym("a")),
                                 List(<<Sym("g")>>)), IntegerV(5))
          /\ Answers(Letrec2Form("g", LambdaForm(<<>>, Sym("a")), "a", Number(5),
                                 List(<<Sym("g")>>)), IntegerV(5))
          /\ Answers(LetrecForm("f", ParityLambda(Number(0), "f"), Call1("f", Number(3))),
                     IntegerV(0))]_vars

\* even? applied to 10 has answered #t after its eleven calls
C12_EvenOfTenIsTrue ==
    /\ last.stx = EvenOdd("even?", 10)
    /\ last.r = "ok" /\ last.v = BooleanV(TRUE)
    /\ Len(last.calls) = 11

RECURSIVE ListElems(_, _, _)
\* the cars along the cdr chain of v, at most fuel of them
ListElems(v, ps, fuel) ==
    IF v.t # "V_PAIR" \/ fuel = 0 THEN <<>>
    ELSE <<ps[v.a].car>> \o ListElems(ps[v.a].cdr, ps, fuel - 1)

\* C13: a lambda whose parameter list ends with ... after k+1 names makes a
\* variadic procedure: applied to m < k arguments it fails, applied to
\* m >= k arguments it binds the name before ... to the proper list of the
\* m-k remaining argument values in order.
C13_RestCollectsRemaining ==
    \A k \in 0..1 : \A m \in 0..3 :
        last.stx = VariadicCall(k, m) =>
            IF m < k THEN last.r = "RuntimeError"
            ELSE /\ last.r = "ok"
                 /\ ProperList(last.v, pairs, Len(pairs))
                 /\ ListElems(last.v, pairs, Len(pairs)) = [i \in 1..(m - k) |-> IntegerV(k + i)]

\* C13, what the code does: ... is one more parameter name, so
\* ((lambda (rest ...) rest) 1 2) binds rest to 1 and answers 1, no list
\* having been built
C13_RestBoundToOneArgument ==
    /\ last.stx = VariadicCall(0, 2)
    /\ last.r = "ok" /\ last.v = IntegerV(1)
    /\ Len(last.calls) = 1 /\ last.calls[1].parameters = <<"rest", "...">>

\* C14: for every procedure made by a lambda without ... and with n
\* parameters, whatever the parameter names and whatever the body:
\* applied to m # n arguments it fails with RuntimeError and the body is not
\* evaluated, applied to n arguments the body runs with the i-th parameter
\* bound to the i-th argument value.
C14_FixedArityWhateverTheNames ==
    /\ \A ps \in ArityParams : \A m \in 0..3 :
           last.stx = ArityCall(ps, Sym(LastOf(ps)), m) =>
               IF m # Len(ps) THEN last.r = "RuntimeError"
               ELSE last.r = "ok" /\ last.v = IntegerV(m)
    /\ \A x \in {"a", "args"} :
           last.stx = SumBodyCall(x) => (last.r = "ok" /\ last.v = IntegerV(60))

\* C14, what the code does for a lambda whose one parameter is named args:
\* ((lambda (args) args) 1 2) is accepted and answers the list (1 2)
C14_ArgsTakesAnyCount ==
    /\ last.stx = ArityCall(<<"args">>, Sym("args"), 2)
    /\ last.r = "ok"
    /\ ListElems(last.v, pairs, Len(pairs)) = <<IntegerV(1), IntegerV(2)>>

\* the value an operand of the mutation suite has in the current state
Denotes(stx) ==
    LET p == find("p", global_env, frames)
    IN  CASE stx = Sym("p") -> p
          [] stx = Cdr(Sym("p")) -> IF p.t = "V_PAIR" THEN pairs[p.a].cdr ELSE Nullptr
          [] stx = Call1("car", Sym("p")) -> IF p.t = "V_PAIR" THEN pairs[p.a].car ELSE Nullptr
          [] stx.k = "Number" -> IntegerV(stx.n)
          [] OTHER -> NullV

\* the cells after op has stored v in cell a
Mutated(op, a, v) ==
    IF op = "set-car!" THEN [pairs EXCEPT ![a].car = v] ELSE [pairs EXCEPT ![a].cdr = v]

\* no frame that existed was changed and the global environment is the same
FramesKept ==
    /\ global_env' = global_env
    /\ Len(frames') >= Len(frames)
    /\ \A i \in 1..Len(frames) : frames'[i] = frames[i]

\* C15: set-car! and set-cdr! on a pair replace that slot of that cell, so
\* every reference to the cell observes the new value, leave the other slot,
\* every other cell and every binding as they were, and return Void; with a
\* first argument that is not a pair they fail and change nothing.
C15_MutatorsChangeOneSlot ==
    [][hist' # hist =>
        /\ \A op \in Mutators : \A t \in MutateTargets : \A v \in MutateValues :
               (last'.stx = Call2(op, t, v) /\ last'.stx \in MutateCalls) =>
                   /\ FramesKept
                   /\ IF Denotes(t).t = "V_PAIR" /\ Denotes(v) # Nullptr
                      THEN /\ last'.r = "ok" /\ last'.v = VoidV
                           /\ pairs' = Mutated(op, Denotes(t).a, Denotes(v))
                      ELSE last'.r = "RuntimeError" /\ pairs' = pairs
        /\ \A op \in Mutators :
               last'.stx = MutateThenReadAlias(op) =>
                   /\ last'.r = "ok" /\ last'.v = PairAt(Len(pairs) + 1)
                   /\ pairs' = Append(pairs,
                                      IF op = "set-car!"
                                      THEN [car |-> IntegerV(9), cdr |-> IntegerV(2)]
                                      ELSE [car |-> IntegerV(1), cdr |-> IntegerV(9)])]_vars

\* (set-car! (cdr p) p) has run on the list (1 2 3): the second cell holds p
\* and the other two cells are as list made them
C15_SecondCellHoldsP ==
    /\ hist = <<DefineForm("p", Call3("list", Number(1), Number(2), Number(3))),
                Call2("set-car!", Cdr(Sym("p")), Sym("p"))>>
    /\ last.r = "ok" /\ last.v = VoidV
    /\ LET p == find("p", global_env, frames)
       IN  /\ pairs[p.a].car = IntegerV(1)
           /\ pairs[pairs[p.a].cdr.a].car = p
           /\ pairs[pairs[pairs[p.a].cdr.a].cdr.a] = [car |-> IntegerV(3), cdr |-> NullV]

\* C16: every define whose target is a primitive name fails with
\* RuntimeError and creates no binding for the name, wherever the define is
\* evaluated: at top level, in a procedure body, or as an internal define at
\* the start of a begin.
C16_PrimitiveDefineFailsEverywhere ==
    \A x \in DefinedPrimitives :
        /\ suite = "primdefine" => x \notin BoundNames
        /\ last.stx \in DefinePlaces(x) => last.r = "RuntimeError"

\* C16, what the code does with an internal define: (begin (define car 1) car)
\* binds car in the environment of the begin and answers 1
C16_InternalDefineBindsCar ==
    /\ last.stx = BeginDefines("car")
    /\ last.r = "ok" /\ last.v = IntegerV(1)
    /\ \E i \in 1..Len(frames) : frames[i] = [x |-> "car", v |-> IntegerV(1), next |-> 0]

\* C17: when a fixed-arity primitive (modulo, expt, cons, car, cdr, eq?),
\* not shadowed, stands in head position with the wrong number of operands,
\* the failure is raised by the parser: no operand has been evaluated and
\* nothing has been written when the form fails.
C17_WrongCountRejectedByParser ==
    \A op \in UnaryPrimitives \cup BinaryPrimitives :
        last.stx \in WrongCountForms(op) =>
            /\ last.r = "RuntimeError"
            /\ last.expr = ParseError
            /\ last.eout = <<>>

\* C17, what the code does: (car (display 1) 2 3) parses to an application
\* of the variable car, display writes 1, and only then Apply::eval finds
\* three arguments for one parameter
C17_OperandRanBeforeCountFailure ==
    /\ last.stx = Call3("car", Display1, Number(2), Number(3))
    /\ last.expr.c = "Apply"
    /\ last.r = "RuntimeError"
    /\ last.eout = <<"1">>

\* C18: + - * / and the comparisons fail with RuntimeError when at least
\* one operand is not a number, for every operand count the operator
\* accepts, a single operand included, and wherever the operand stands.
C18_NonNumericOperandFails ==
    \A op \in ArithmeticOps \cup ComparisonOps : \A xs \in IllTypedOperands :
        last.stx = OpCall(op, xs) => last.r = "RuntimeError"

\* C18, what the code does with one operand: (+ #t) parses to its operand
\* and answers #t
C18_SumOfOneBooleanIsTheBoolean ==
    /\ last.stx = OpCall("+", <<TrueSyntax>>)
    /\ last.expr = True
    /\ last.r = "ok" /\ last.v = BooleanV(TRUE)

\* p, a power of b, multiplied once more by b
PowerStep(p, b) ==
    IF ~p.fits \/ mulOverflows(p.n, b) THEN [fits |-> FALSE, n |-> 0]
    ELSE [fits |-> TRUE, n |-> p.n * b]

RECURSIVE Power(_, _)
\* b to the e-th, e >= 0, as a mathematical integer: fits says it is within
\* INT_MIN..INT_MAX and n is then its value
Power(b, e) ==
    IF e = 0 THEN [fits |-> TRUE, n |-> 1] ELSE PowerStep(Power(b, e - 1), b)

\* C19: expt on integers b and e fails when e < 0 and when b = 0 and e = 0;
\* otherwise it returns exactly b to the e-th when that fits the integer
\* range, and fails with RuntimeError, never returning a wrapped result, when
\* it does not.
C19_ExptExactOrRuntimeError ==
    \A b \in ExptBases : \A e \in ExptExponents :
        last.stx = ExptCall(b, e) =>
            IF e < 0 \/ (b = 0 /\ e = 0) \/ ~Power(b, e).fits
            THEN last.r = "RuntimeError"
            ELSE last.r = "ok" /\ last.v = IntegerV(Power(b, e).n)

\* C19, what the code does: in (expt 2 31) the product leaves the int range,
\* which the tests on the int itself cannot see, and no RuntimeError is
\* raised
C19_OverflowNotCaught ==
    /\ last.stx = ExptCall(2, 31)
    /\ ~Power(2, 31).fits
    /\ last.r = "undefined"

\* numerator and denominator of a number value
NumeratorOf(v) == v.n
DenominatorOf(v) == IF v.t = "V_INT" THEN 1 ELSE v.d

\* the number value v equals a/b, b # 0
IsQuotient(v, a, b) ==
    /\ v.t \in {"V_INT", "V_RATIONAL"}
    /\ DenominatorOf(v) > 0
    /\ NumeratorOf(v) * b = a * DenominatorOf(v)

\* what op answers on the operands xs of FewOperands: r and v are the
\* outcome and the value
FewOperandsAnswer(op, xs, r, v) ==
    IF xs = <<>>
    THEN CASE op = "+" -> r = "ok" /\ v = IntegerV(0)
           [] op = "*" -> r = "ok" /\ v = IntegerV(1)
           [] OTHER -> r = "RuntimeError"
    ELSE LET a == xs[1].n
             b == IF xs[1].k = "Number" THEN 1 ELSE xs[1].d
         IN  CASE op = "-" ->
                    /\ r = "ok" /\ IsQuotient(v, -a, b)
                    /\ xs[1].k = "Number" => v = IntegerV(-a)
               [] op = "/" ->
                    IF a = 0 THEN r = "RuntimeError"
                    ELSE r = "ok" /\ IsQuotient(v, b, a)
               [] OTHER -> r = "ok" /\ IsQuotient(v, a, b)

\* C20: with no operand (+) is 0, (*) is 1 and (-) and (/) fail; with one
\* Integer or Rational operand x, (- x) is the negation of x and (/ x) its
\* reciprocal, (/ 0) failing as a division by zero; and the answers are the
\* same when the operator is applied through its procedure value.
C20_FewOperandsDirectAndThroughValue ==
    \A op \in ArithmeticOps : \A xs \in FewOperands :
        last.stx \in {OpCall(op, xs), ThroughValue(op, xs)} =>
            FewOperandsAnswer(op, xs, last.r, last.v)

\* ((lambda (f) (f -2/3)) /) has answered -3/2, the one body evaluated being
\* that of the lambda
C20_ReciprocalThroughValue ==
    /\ last.stx = ThroughValue("/", <<RationalSyntax(-2, 3)>>)
    /\ last.r = "ok"
    /\ last.v.t = "V_RATIONAL" /\ last.v.n = -3 /\ last.v.d = 2
    /\ Len(last.calls) = 1

-----------------------------------------------------------------------------
(* The division and comparison operators on their own: the operand values  *)
(* are drawn at the start and one evalRator is applied to them.  arith     *)
(* holds the operands, the class applied and what it gave.                 *)

\* the values of the number literals
NumOperands == {LiteralValue(stx).v : stx \in NumberLiterals}

\* no operand, one, two or three
NumArgLists ==
    {<<>>} \cup {<<a>> : a \in NumOperands}
        \cup {<<a, b>> : a, b \in NumOperands}
        \cup {<<a, b, c>> : a, b, c \in NumOperands}

BinaryNumClasses == {"Div", "Less", "LessEq", "Equal", "GreaterEq", "Greater"}
VariadicNumClasses ==
    {"DivVar", "LessVar", "LessEqVar", "EqualVar", "GreaterEqVar", "GreaterVar"}

NumApplied(c, res) ==
    /\ arith.op = "none"
    /\ arith' = [arith EXCEPT !.op = c, !.res = res]
    /\ UNCHANGED <<global_env, frames, pairs, nid, out, status, hist, last, suite, build>>

\* Binary::evalRator of the class the parser builds for two operands
NumBinary(c) ==
    /\ Len(arith.args) = 2
    /\ NumApplied(c, Numeric_evalRator(c, arith.args[1], arith.args[2]))

\* Variadic::evalRator of the class built for other operand counts and for
\* the operator as a procedure value
NumVariadic(c) == NumApplied(c, NumericVar_evalRator(c, arith.args))

InitNum ==
    /\ global_env = empty
    /\ frames = <<>>
    /\ pairs = <<>>
    /\ nid = 0
    /\ out = <<>>
    /\ status = "running"
    /\ hist = <<>>
    /\ last = NoIteration
    /\ suite = "num"
    /\ build = [argOrder |-> "ltr", divTraps |-> FALSE]
    /\ arith \in {[args |-> xs, op |-> "none", res |-> Returns(VoidV)] : xs \in NumArgLists}

NextNum ==
    \/ \E c \in BinaryNumClasses : NumBinary(c)
    \/ \E c \in VariadicNumClasses : NumVariadic(c)

SpecNum == InitNum /\ [][NextNum]_vars

RECURSIVE ProductFrom(_, _, _)
\* the product of f(args[i]) for i from k on
ProductFrom(f(_), args, k) ==
    IF k > Len(args) THEN 1 ELSE f(args[k]) * ProductFrom(f, args, k + 1)

\* x1/x2/.../xn as numerator over denominator, not reduced
ExactNumerator(args) == NumeratorOf(args[1]) * ProductFrom(DenominatorOf, args, 2)
ExactDenominator(args) == DenominatorOf(args[1]) * ProductFrom(NumeratorOf, args, 2)

\* the operands with every Integer n written as the Rational n/1
AllRational(args) ==
    [i \in 1..Len(args) |->
        [t |-> "V_RATIONAL", n |-> NumeratorOf(args[i]), d |-> DenominatorOf(args[i])]]

\* the class c applied to args
NumResult(c, args) ==
    IF c \in BinaryNumClasses THEN Numeric_evalRator(c, args[1], args[2])
    ELSE NumericVar_evalRator(c, args)

\* v is in lowest terms
LowestTerms(v) ==
    \A k \in 2..DenominatorOf(v) : ~(Divides(k, NumeratorOf(v)) /\ Divides(k, DenominatorOf(v)))

\* C21: on n >= 2 Integer or Rational operands / returns the exact quotient
\* x1/x2/.../xn in lowest terms with a positive denominator, fails as a
\* division by zero exactly when an operand after the first is zero, and
\* gives the same number when the Integers among the operands are written as
\* Rationals.
C21_DivisionExact ==
    (arith.op \in {"Div", "DivVar"} /\ Len(arith.args) >= 2) =>
        IF \E i \in 2..Len(arith.args) : arith.args[i].n = 0
        THEN arith.res.r = "RuntimeError"
        ELSE /\ arith.res.r = "ok"
             /\ IsQuotient(arith.res.v, ExactNumerator(arith.args), ExactDenominator(arith.args))
             /\ LowestTerms(arith.res.v)
             /\ NumResult(arith.op, AllRational(arith.args)).r = "ok"
             /\ IsQuotient(NumResult(arith.op, AllRational(arith.args)).v,
                           NumeratorOf(arith.res.v), DenominatorOf(arith.res.v))

\* (/ 1 2 -1/2) has given the Integer -1
C21_MixedQuotientIsMinusOne ==
    /\ arith.op = "DivVar"
    /\ arith.args = <<IntegerV(1), IntegerV(2), [t |-> "V_RATIONAL", n |-> -1, d |-> 2]>>
    /\ arith.res = Returns(IntegerV(-1))

\* x R y for the relation of class c, by exact rational ordering
ExactlyRelated(c, x, y) ==
    relHolds(c, IF NumeratorOf(x) * DenominatorOf(y) < NumeratorOf(y) * DenominatorOf(x) THEN -1
                ELSE IF NumeratorOf(x) * DenominatorOf(y) > NumeratorOf(y) * DenominatorOf(x) THEN 1
                ELSE 0)

\* C22: a comparison of n >= 2 Integer or Rational operands is true exactly
\* when every adjacent pair is in the relation under exact rational
\* ordering, and false otherwise; with fewer than two operands it fails.
C22_ComparisonsChainExactly ==
    (arith.op \in (BinaryNumClasses \cup VariadicNumClasses) \ {"Div", "DivVar"}) =>
        IF Len(arith.args) < 2 THEN arith.res.r = "RuntimeError"
        ELSE arith.res =
                 Returns(BooleanV(\A i \in 1..(Len(arith.args) - 1) :
                                      ExactlyRelated(arith.op, arith.args[i], arith.args[i + 1])))

\* (<= 1/2 1 1) has answered true
C22_HalfOneOneAscending ==
    /\ arith.op = "LessEqVar"
    /\ arith.args = <<[t |-> "V_RATIONAL", n |-> 1, d |-> 2], IntegerV(1), IntegerV(1)>>
    /\ arith.res = Returns(BooleanV(TRUE))

\* the value a number or symbol datum is converted to
DatumValue(stx) == IF stx.k = "Number" THEN IntegerV(stx.n) ELSE SymbolV(stx.s)

RECURSIVE FinalCdr(_, _, _)
\* where the cdr chain of v ends, followed for at most fuel cells
FinalCdr(v, ps, fuel) ==
    IF v.t # "V_PAIR" \/ fuel = 0 THEN v ELSE FinalCdr(ps[v.a].cdr, ps, fuel - 1)

\* the positions of the dot in xs
DotsOf(xs) == {i \in 1..Len(xs) : xs[i] = Sym(".")}

\* C23: a quoted list with the symbol . among its elements yields, when it
\* has exactly one . and that one is the second-to-last element with an
\* element before it, the improper list whose final cdr is the converted
\* last element, and fails as a malformed quote in every other case, the
\* list of only . included; a quoted list without . yields the proper list
\* of its converted elements.
C23_DottedQuote ==
    \A xs \in QuotedLists :
        last.stx = QuoteForm(List(xs)) =>
            IF DotsOf(xs) = {}
            THEN /\ last.r = "ok"
                 /\ ProperList(last.v, pairs, Len(pairs))
                 /\ ListElems(last.v, pairs, Len(pairs)) = [i \in 1..Len(xs) |-> DatumValue(xs[i])]
            ELSE IF DotsOf(xs) = {Len(xs) - 1} /\ Len(xs) >= 3
            THEN /\ last.r = "ok"
                 /\ ListElems(last.v, pairs, Len(pairs))
                        = [i \in 1..(Len(xs) - 2) |-> DatumValue(xs[i])]
                 /\ FinalCdr(last.v, pairs, Len(pairs)) = DatumValue(xs[Len(xs)])
            ELSE last.r = "RuntimeError"

\* C23, what the code does with the list of only the dot: (quote (.)) is the
\* one-element list holding the symbol .
C23_OnlyDotIsAList ==
    /\ last.stx = QuoteForm(List(<<Sym(".")>>))
    /\ last.r = "ok"
    /\ last.v.t = "V_PAIR"
    /\ pairs[last.v.a] = [car |-> SymbolV("."), cdr |-> NullV]

\* the clauses of c that are taken if reached
TakenOf(c) == {i \in 1..Len(c) : c[i].test # FalseSyntax}

\* the first of them, 0 if there is none
FirstTaken(c) ==
    IF TakenOf(c) = {} THEN 0 ELSE CHOOSE i \in TakenOf(c) : \A j \in TakenOf(c) : i <= j

RECURSIVE TestsWritten(_, _, _)
\* what the tests of clauses i..k write: each examined test once, in order
TestsWritten(c, i, k) ==
    IF i > k THEN <<>>
    ELSE (IF c[i].test = Sym("else") THEN <<>> ELSE <<ToString(i)>>)
             \o TestsWritten(c, i + 1, k)

\* what the cond of case c writes
CondWrites(c) ==
    IF FirstTaken(c) = 0 THEN TestsWritten(c, 1, Len(c))
    ELSE TestsWritten(c, 1, FirstTaken(c))
             \o (IF c[FirstTaken(c)].bodied THEN <<ToString(10 + FirstTaken(c))>> ELSE <<>>)

\* what it returns
CondReturns(c) ==
    IF FirstTaken(c) = 0 THEN VoidV
    ELSE IF c[FirstTaken(c)].bodied THEN IntegerV(20 + FirstTaken(c))
    ELSE IF c[FirstTaken(c)].test = Sym("else") THEN VoidV
    ELSE IF c[FirstTaken(c)].test = TrueSyntax THEN BooleanV(TRUE)
    ELSE IntegerV(c[FirstTaken(c)].test.n)

\* C24: cond examines its clauses in order and evaluates each examined test
\* once; at the first clause whose test is not Boolean false, or whose head
\* is else, it evaluates the body in order and returns its last value, or
\* the value of the test when there is no body; nothing of a later clause
\* is evaluated; when no clause is taken it returns Void.
C24_CondTakesFirstClause ==
    \A c \in CondCases :
        last.stx = CondForm(c) =>
            /\ last.r = "ok"
            /\ last.eout = CondWrites(c)
            /\ last.v = CondReturns(c)

\* the first test was false and written once, the second clause was taken,
\* its body written once and its last value returned
C24_SecondClauseTaken ==
    /\ last.stx = CondForm(<<[test |-> FalseSyntax, bodied |-> TRUE],
                             [test |-> Number(5), bodied |-> TRUE]>>)
    /\ last.eout = <<"1", "2", "12">>
    /\ last.v = IntegerV(22)

\* C25: (set! x e) on a name that find does not resolve in the current
\* environment fails with RuntimeError and leaves every frame as it was; on a
\* bound name it overwrites the value slot of the innermost frame binding x
\* and no other, so a closure sharing that frame reads the new value while
\* an outer frame binding the same name keeps its own.
C25_SetWritesInnermostFrame ==
    [][/\ \A x \in {"x", "y"} :
               last'.stx = SetForm(x, Number(2)) =>
                   IF find(x, global_env, frames) = Nullptr
                   THEN last'.r = "RuntimeError" /\ frames' = frames
                   ELSE /\ last'.r = "ok"
                        /\ global_env' = global_env
                        /\ frames' = [frames EXCEPT
                               ![findFrame(x, global_env, frames)].v = IntegerV(2)]
       /\ last'.stx = SetSeenByClosure =>
              last'.r = "ok" /\ last'.v = IntegerV(3) /\ FramesKept
       /\ last'.stx = SetShadowed =>
              /\ last'.r = "ok"
              /\ last'.v.t = "V_PAIR"
              /\ pairs'[last'.v.a].car = IntegerV(3)
              /\ pairs'[last'.v.a].cdr = IntegerV(1)
              /\ FramesKept]_vars

\* the inner x was assigned 3 and the closure over the outer x still reads 1
C25_OuterFrameKeepsItsValue ==
    /\ last.stx = SetShadowed
    /\ IsPairOf(last.v, 3, 1)
    /\ \E i \in 1..Len(frames) : frames[i].x = "x" /\ frames[i].v = IntegerV(3)
    /\ \E i \in 1..Len(frames) : frames[i].x = "x" /\ frames[i].v = IntegerV(1)

-----------------------------------------------------------------------------
(* The environment operations of value.cpp on their own: any sequence of
   extend, find and modify over the environments built so far. *)

\* Frames allocated in one run of the environment operations.
MaxFrames == 2

EnvNames == {"x", "y"}
EnvValues == {IntegerV(1), IntegerV(2)}

\* the environments a program can hold: empty() and every frame built
EnvHandles == 0..Len(frames)

EnvApplied(op, x, v, l, fr, res) ==
    /\ frames' = fr
    /\ arith' = [op |-> op, x |-> x, v |-> v, l |-> l, res |-> res]
    /\ UNCHANGED <<global_env, pairs, nid, out, status, hist, last, suite, build>>

\* extend(x, v, l)
EnvExtend(x, v, l) ==
    /\ Len(frames) < MaxFrames
    /\ EnvApplied("extend", x, v, l, extend(x, v, l, frames).frames,
                  extend(x, v, l, frames).env)

\* find(x, l)
EnvFind(x, l) == EnvApplied("find", x, Nullptr, l, frames, find(x, l, frames))

\* modify(x, v, l)
EnvModify(x, v, l) == EnvApplied("modify", x, v, l, modify(x, v, l, frames), Nullptr)

InitEnv ==
    /\ global_env = empty
    /\ frames = <<>>
    /\ pairs = <<>>
    /\ nid = 0
    /\ out = <<>>
    /\ status = "running"
    /\ hist = <<>>
    /\ last = NoIteration
    /\ suite = "env"
    /\ build = [argOrder |-> "ltr", divTraps |-> FALSE]
    /\ arith = [op |-> "none", x |-> "x", v |-> Nullptr, l |-> 0, res |-> Nullptr]

NextEnv ==
    \/ \E x \in EnvNames, v \in EnvValues, l \in EnvHandles : EnvExtend(x, v, l)
    \/ \E x \in EnvNames, l \in EnvHandles : EnvFind(x, l)
    \/ \E x \in EnvNames, v \in EnvValues, l \in EnvHandles : EnvModify(x, v, l)

SpecEnv == InitEnv /\ [][NextEnv]_vars

RECURSIVE Chain(_, _)
\* the frames reachable from l, from the head on
Chain(l, fr) == IF l = 0 THEN <<>> ELSE <<l>> \o Chain(fr[l].next, fr)

\* the positions of the chain of l whose frame binds x
Binding(x, l, fr) == {k \in 1..Len(Chain(l, fr)) : fr[Chain(l, fr)[k]].x = x}

\* the first frame from the head of l that binds x, 0 if none does
FirstBinding(x, l, fr) ==
    IF Binding(x, l, fr) = {} THEN 0
    ELSE Chain(l, fr)[CHOOSE k \in Binding(x, l, fr) : \A j \in Binding(x, l, fr) : k <= j]

\* C26: extend returns a chain with one new head frame and leaves every
\* frame that existed, names, values and links, as it was; find returns the
\* value of the first frame from the head that binds the name, or the unbound
\* sentinel if none does; modify changes only the value slot of that first
\* frame, and nothing when no frame binds the name.
C26_EnvironmentOperations ==
    [][/\ arith'.op = "extend" =>
              /\ Len(frames') = Len(frames) + 1
              /\ arith'.res = Len(frames')
              /\ frames'[arith'.res] = [x |-> arith'.x, v |-> arith'.v, next |-> arith'.l]
              /\ \A i \in 1..Len(frames) : frames'[i] = frames[i]
       /\ arith'.op = "find" =>
              /\ frames' = frames
              /\ arith'.res = IF FirstBinding(arith'.x, arith'.l, frames) = 0 THEN Nullptr
                              ELSE frames[FirstBinding(arith'.x, arith'.l, frames)].v
       /\ arith'.op = "modify" =>
              /\ Len(frames') = Len(frames)
              /\ \A i \in 1..Len(frames) :
                     frames'[i] = IF i = FirstBinding(arith'.x, arith'.l, frames)
                                  THEN [frames[i] EXCEPT !.v = arith'.v]
                                  ELSE frames[i]]_vars

\* a modify through a chain of two frames binding x has written the head
\* frame and left the outer one with its value
C26_ModifyLeftOuterFrame ==
    /\ arith.op = "modify"
    /\ arith.x = "x"
    /\ arith.v = IntegerV(2)
    /\ Len(Chain(arith.l, frames)) >= 2
    /\ frames[arith.l].x = "x"
    /\ frames[arith.l].v = IntegerV(2)
    /\ frames[frames[arith.l].next].x = "x"
    /\ frames[frames[arith.l].next].v = IntegerV(1)

\* the outcome of an application: that it failed, or the kind and content
\* of its value
OutcomeOf(r, v) ==
    IF r # "ok" THEN <<"failure">>
    ELSE IF v.t = "V_RATIONAL" THEN <<"value", v.t, v.n, v.d>>
    ELSE <<"value", v>>

\* C27: for every primitive p unbound in the environment and every argument
\* list, applying the procedure value that referring to p gives yields the
\* same outcome, the same value or a failure in both cases, as the direct
\* application (p a1 ... an).
C27_FirstClassAgreesWithDirect ==
    [][\A p \in FirstClassPrimitives : \A xs \in FirstClassOperands :
           last'.stx = ThroughValue(p, xs) =>
               OutcomeOf(last'.r, last'.v)
                   = OutcomeOf(parseEval(OpCall(p, xs)).res.r,
                               parseEval(OpCall(p, xs)).res.v)]_vars

\* C27, what the code does: (+ #t) is rewritten by the parser to its one
\* operand and answers #t, while the procedure value of + checks its
\* arguments: ((lambda (f) (f #t)) +) has failed where the direct
\* application, read next, answers #t
C27_SumOfBooleanFailsThroughValue ==
    /\ last.stx = ThroughValue("+", <<TrueSyntax>>)
    /\ last.r = "RuntimeError"
    /\ parseEval(OpCall("+", <<TrueSyntax>>)).res.r = "ok"
    /\ parseEval(OpCall("+", <<TrueSyntax>>)).res.v = BooleanV(TRUE)

\* the forms read before the last one
Earlier == 1..(Len(hist) - 1)

\* the last of the forms read before the last one that defines x
LastDefineOfX ==
    CHOOSE i \in Earlier :
        /\ \E n \in GlobalValues : hist[i] = DefineForm("x", Number(n))
        /\ \A j \in Earlier : j > i => \A n \in GlobalValues : hist[j] # DefineForm("x", Number(n))

\* C28: the global environment is one shared scope for procedures created at
\* top level: a closure created by an earlier top-level form that refers to
\* the global x reads the value of the most recent completed top-level
\* (define x ...), whether x was redefined or first defined after the
\* closure was created.
C28_ClosureReadsLatestGlobal ==
    (/\ suite = "global"
     /\ hist # <<>>
     /\ last.stx = CallReader
     /\ \E i \in Earlier : hist[i] = DefineReader
     /\ \E i \in Earlier : \E n \in GlobalValues : hist[i] = DefineForm("x", Number(n)))
        => /\ last.r = "ok"
           /\ last.v = IntegerV(hist[LastDefineOfX].stxs[3].n)

\* C28, what the code does: every define pushes a new head frame on the
\* global environment and a closure keeps the head of the time it was made:
\* after (define x 1) (define g (lambda () x)) (define x 2), (g) answers 1
C28_ClosureReadsOldGlobal ==
    /\ hist = <<DefineForm("x", Number(1)), DefineReader, DefineForm("x", Number(2)), CallReader>>
    /\ last.r = "ok"
    /\ last.v = IntegerV(1)

\* and after (define g (lambda () x)) (define x 1), (g) finds no x
C28_ForwardReferenceUnbound ==
    /\ hist = <<DefineReader, DefineForm("x", Number(1)), CallReader>>
    /\ last.r = "RuntimeError"

\* C29: a define evaluated inside a top-level begin binds its name in the
\* global environment for all later top-level forms, whatever its position
\* in the begin: after (begin (define x 1) ...) and after
\* (begin e (define x 1) ...) alike, x answers 1.
C29_BeginDefineBindsGlobally ==
    \A b \in BeginDefineForms :
        ReadLast2(b, Sym("x")) => last.r = "ok" /\ last.v = IntegerV(1)

\* C29, what the code does: the defines that lead a begin are bound in an
\* environment local to Begin::eval; after (begin (define x 1) 7), which
\* answered 7, x is unbound, while after (begin 7 (define x 1)) it is bound
C29_LeadingDefineIsLocal ==
    /\ ReadLast2(List(<<Sym("begin"), DefineForm("x", Number(1)), Number(7)>>), Sym("x"))
    /\ last.r = "RuntimeError"
    /\ find("x", global_env, frames) = Nullptr

\* after (begin 7 (define x 1)) x answers 1
C29_LaterDefineIsGlobal ==
    /\ ReadLast2(List(<<Sym("begin"), Number(7), DefineForm("x", Number(1))>>), Sym("x"))
    /\ last.r = "ok"
    /\ last.v = IntegerV(1)

\* what a consumer answers on the literal n
ConsumedLiteral(c, n) ==
    CASE c = "number?" -> BooleanV(TRUE)
      [] c = "eq?" -> BooleanV(TRUE)
      [] c = "modulo" -> IntegerV(n % 3)
      [] c = "expt" -> IntegerV(n * n)

\* C30: a numeric result whose exact value is the integer n is the same
\* kind of value whichever operator form produced it: the results of
\* (/ a b), of (/ a b 1) and of a product of an Integer and a Rational equal
\* to n satisfy the integer predicate, are eq? to n and are accepted by
\* modulo and expt, exactly like the literal n.
C30_IntegerResultsAreIntegers ==
    \A ab \in ExactDivisions : \A c \in IntegerConsumers :
        \A p \in IntegerProducers(ab) \cup {Number(Quotient(ab))} :
            last.stx = Consume(c, p, Quotient(ab)) =>
                last.r = "ok" /\ last.v = ConsumedLiteral(c, Quotient(ab))

\* C30, what the code does: the two-operand (/ 4 2) is the Rational 2/1,
\* which the integer predicate does not take for an integer
C30_QuotientIsNotAnInteger ==
    /\ last.stx = Consume("number?", Call2("/", Number(4), Number(2)), 2)
    /\ last.r = "ok"
    /\ last.v = BooleanV(FALSE)

\* while the three-operand (/ 4 2 1) is the Integer 2
C30_ThreeOperandQuotientIsAnInteger ==
    /\ last.stx = Consume("number?", Call3("/", Number(4), Number(2), Number(1)), 2)
    /\ last.r = "ok"
    /\ last.v = BooleanV(TRUE)

====
